---- MODULE Spec2Model ----
(***************************************************************************)
(* Model of the worker communication substrate and the entity lifecycle    *)
(* of the mediasoup Rust client library.                                   *)
(*                                                                         *)
(*   SpecLink  the framed transport link of worker/channels.rs: the writer *)
(*             task, the reader task and the byte streams between them.    *)
(*   SpecChan  request/response correlation on top of a link.              *)
(*   SpecLife  the lifecycle of Consumer, DataProducer, DataConsumer and   *)
(*             their parent transport.                                     *)
(*   SpecDecode the decoding of received frames on its own.                *)
(*   SpecState the cached state and the multi-fire handlers of a Consumer  *)
(*             and a WebRtcTransport.                                      *)
(*   SpecLock  the locks of a Consumer's cached state, with a request      *)
(*             method and a notification running on two threads.           *)
(*   SpecIds   the allocation of SCTP stream ids and consumer mids by a    *)
(*             transport, and the weak handle of a DataProducer.           *)
(*                                                                         *)
(* Bytes are their integer values (58 is ':', 44 is ',', 123 is '{').      *)
(***************************************************************************)
EXTENDS Integers, Sequences, FiniteSets

(***************************************************************************)
(* Bounds of the model.                                                    *)
(***************************************************************************)
\* Longest payload handed to the writer or emitted by the worker.
MaxPayloadLen == 1
\* Number of frames put on the streams in one behaviour.
MaxFrames == 2
\* Number of callers of request(), each issuing one request.
MaxRequests == 3
\* Number of responses the worker sends in one behaviour.
MaxReplies == 3
\* Number of handlers the application registers on one entity.
MaxHandlers == 2
\* Number of handles (clones) the application holds of one entity.
MaxRefs == 2
\* Number of close notifications the worker sends to one entity.
MaxNotifs == 2
\* Number of request-method calls counted on a closed entity.
MaxCalls == 1
\* Longest payload of a frame handed to the decoding step on its own.
MaxDecLen == 2
\* Largest number of SCTP streams (`mis`) of a transport.
MaxMis == 2
\* Number of calls of next_mid_for_consumers in one behaviour.
MaxMids == 3

(***************************************************************************)
(* Program constants.                                                      *)
(***************************************************************************)
NS_PAYLOAD_MAX_LEN == 4194304

\* The bytes payloads are built from: '{' and 'a' (a tag and a byte that
\* is no tag).
PayloadBytes == {123, 97}

SeqsUpTo(S, n) == UNION {[1..k -> S] : k \in 0..n}

Payloads == SeqsUpTo(PayloadBytes, MaxPayloadLen)

VARIABLES
    \* ---- link (worker/channels.rs) ----
    sendQ,          \* async_channel::bounded::<Vec<u8>>(1) of the send side
    writerState,    \* writer task: "running" | "failed"
    wpipe,          \* frames the writer wrote to its stream, oldest first
    rin,            \* unread bytes of the reader's stream
    rstatus,        \* reader's stream: "open" | "eof" | "err"
    fed,            \* history: the frames appended to the reader's stream
    nframes,        \* history: number of frames created so far
    consumed,       \* history: number of bytes the reader task has consumed
    bytes,          \* reader task: the `bytes` buffer
    readerState,    \* reader task: "running" | "failed" | "panicked"
    decoded,        \* history: results of deserialize_message
    recvQ,          \* messages placed on the receive side of the link
    executor,       \* the task executor: "running" | "unwound"
    \* ---- channel (request/response correlation) ----
    nextId,         \* the next correlation id to hand out
    pending,        \* correlation table: set of [id, caller]
    reqId,          \* history: the id given to each caller's request (-1: none)
    results,        \* per caller: what its request() call has returned
    arrived,        \* response ids on the receive side, not yet dispatched
    nreplies,       \* history: number of responses the worker has sent
    chanClosed,     \* the channel has seen the end of the link
    \* ---- entity lifecycle (router/*.rs) ----
    kind,           \* the child entity: "consumer" | "data_producer" | "data_consumer"
    ent,            \* the child entity (see EntInit)
    tr,             \* its parent transport (see TrInit)
    \* ---- decoding of received frames (worker/channels.rs) ----
    dChan,          \* which pipe pair the frames are on: "channel" | "payload"
    dIn,            \* payloads of the frames of the stream, in order
    dOut,           \* the ChannelMessages built from the frames so far
    \* ---- cached state and multi-fire handlers (router/*.rs) ----
    skind,          \* the entity: "consumer" | "transport"
    con,            \* the cached fields of a Consumer (see ConInit)
    wt,             \* a WebRtcTransport's data and dispatch (see WtInit)
    handlers,       \* per multi-fire event: how many handlers are in its list
    req,            \* the request method in flight (see NoReq)
    out,            \* what the last step did (see OutOf)
    \* ---- identifiers of a transport, weak DataProducer (router/*.rs) ----
    sctp_mis,               \* `mis` of the SCTP parameters, or None
    used_sctp_stream_ids,   \* per stream id of the table: in use
    holds,                  \* history: outstanding allocations per id
    next_mid_for_consumers, \* the AtomicUsize of Inner
    mids,                   \* history: the mids handed out, in order
    idOut,                  \* what the last call returned
    dprod,                  \* a DataProducer (see DataProducerNew)
    \* ---- locks of a Consumer's cached state (router/consumer.rs) ----
    cached,         \* the flags paused and producer_paused
    owner,          \* per lock: the thread that holds it, or "none"
    th,             \* per thread: where it is (see ThIdle)
    nh,             \* number of handlers in every bag
    ppInit,         \* history: producer_paused at construction
    ppDone,         \* history: last producerpause/producerresume whose
                    \* dispatch went past its handlers, how many of them
                    \* it called and how many there were
    lastEv          \* history: the last of pause/resume that was fired

linkVars == <<sendQ, writerState, wpipe, rin, rstatus, fed, nframes, consumed,
              bytes, readerState, decoded, recvQ, executor>>

chanVars == <<nextId, pending, reqId, results, arrived, nreplies, chanClosed>>

lifeVars == <<kind, ent, tr>>

decVars == <<dChan, dIn, dOut>>

stVars == <<skind, con, wt, handlers, req, out>>

idVars == <<sctp_mis, used_sctp_stream_ids, holds, next_mid_for_consumers, mids,
            idOut, dprod>>

lockVars == <<cached, owner, th, nh, ppInit, ppDone, lastEv>>

vars == <<linkVars, chanVars, lifeVars, decVars, stVars, idVars, lockVars>>

(***************************************************************************)
(* Decimal formatting and parsing.                                         *)
(***************************************************************************)
RECURSIVE to_string(_)
\* usize::to_string: the ASCII decimal digits of n, no sign, no padding.
to_string(n) ==
    IF n < 10 THEN <<48 + n>> ELSE to_string(n \div 10) \o <<48 + (n % 10)>>

IsDigit(b) == b \in 48..57

RECURSIVE DecVal(_)
DecVal(s) ==
    IF Len(s) = 0 THEN 0
    ELSE 10 * DecVal(SubSeq(s, 1, Len(s) - 1)) + (s[Len(s)] - 48)

\* str::parse::<usize>: an optional '+', then one or more decimal digits.
\* Anything else (the empty string, a NUL, a letter) is an Err.
ParseUsize(s) ==
    LET body == IF Len(s) > 0 /\ s[1] = 43 THEN Tail(s) ELSE s
    IN  IF Len(body) = 0 \/ (\E i \in 1..Len(body) : ~IsDigit(body[i]))
        THEN [ok |-> FALSE, val |-> 0]
        ELSE [ok |-> TRUE, val |-> DecVal(body)]

(***************************************************************************)
(* The writer task's framing.                                              *)
(***************************************************************************)
\* A faulty frame layout, for comparison: the terminating ',' is left out.
EncodeUnterminated(message) == to_string(Len(message)) \o <<58>> \o message

\* <decimal length> ':' <message> ','
Encode(message) == to_string(Len(message)) \o <<58>> \o message \o <<44>>

(***************************************************************************)
(* The reader task's buffer: `vec![0u8; NS_PAYLOAD_MAX_LEN]`, kept as the   *)
(* bytes written over its front (head), the count of untouched zero bytes  *)
(* that follow (zeros) and the bytes appended after them (tail).           *)
(***************************************************************************)
BufInit == [head |-> <<>>, zeros |-> NS_PAYLOAD_MAX_LEN, tail |-> <<>>]

BufLen(b) == Len(b.head) + b.zeros + Len(b.tail)

\* b[i], counting from 1.
BufAt(b, i) ==
    IF i <= Len(b.head) THEN b.head[i]
    ELSE IF i <= Len(b.head) + b.zeros THEN 0
    ELSE b.tail[i - Len(b.head) - b.zeros]

\* b[from..=to], counting from 1; empty when to < from.
BufSlice(b, from, to) == [i \in 1..(to - from + 1) |-> BufAt(b, from + i - 1)]

\* read_until appends what it reads to the Vec.
BufExtend(b, s) == [b EXCEPT !.tail = @ \o s]

\* Vec::pop: removes the last byte, if there is one.
BufPop(b) ==
    IF Len(b.tail) > 0 THEN [b EXCEPT !.tail = SubSeq(@, 1, Len(@) - 1)]
    ELSE IF b.zeros > 0 THEN [b EXCEPT !.zeros = @ - 1]
    ELSE IF Len(b.head) > 0 THEN [b EXCEPT !.head = SubSeq(@, 1, Len(@) - 1)]
    ELSE b

\* read_exact(&mut bytes[..k]) with k = Len(data) <= BufLen(b): overwrites
\* the first k bytes, the length of the Vec is unchanged.
BufWritePrefix(b, data) ==
    LET k == Len(data)
        h == Len(b.head)
    IN  IF k <= h THEN [b EXCEPT !.head = data \o SubSeq(@, k + 1, h)]
        ELSE IF k <= h + b.zeros
        THEN [b EXCEPT !.head = data, !.zeros = @ - (k - h)]
        ELSE [head |-> data, zeros |-> 0,
              tail |-> SubSeq(b.tail, k - h - b.zeros + 1, Len(b.tail))]

(***************************************************************************)
(* Stream reads.                                                           *)
(***************************************************************************)
IndexOf(s, byte) ==
    IF \E i \in 1..Len(s) : s[i] = byte
    THEN CHOOSE i \in 1..Len(s) : s[i] = byte /\ \A j \in 1..(i - 1) : s[j] # byte
    ELSE 0

\* A faulty read_until, for comparison: an I/O error is reported like the
\* end of the stream.
ReadUntilErrAsEof(s, byte, status) ==
    LET k == IndexOf(s, byte)
    IN  IF k > 0 THEN [res |-> "ok", n |-> k]
        ELSE IF status \in {"eof", "err"} THEN [res |-> "ok", n |-> Len(s)]
        ELSE [res |-> "pending", n |-> 0]

\* AsyncBufReadExt::read_until on unread bytes s: reads through the first
\* delimiter; without one it reads to the end of the stream (Ok at end of
\* file, Err on an I/O error) or waits for more bytes.  n is the count read.
ReadUntil(s, byte, status) ==
    LET k == IndexOf(s, byte)
    IN  IF k > 0 THEN [res |-> "ok", n |-> k]
        ELSE IF status = "eof" THEN [res |-> "ok", n |-> Len(s)]
        ELSE IF status = "err" THEN [res |-> "err", n |-> Len(s)]
        ELSE [res |-> "pending", n |-> 0]

\* AsyncReadExt::read_exact of k bytes: Ok when they are there, Err
\* (UnexpectedEof or the I/O error) when the stream ends first.
ReadExact(s, k, status) ==
    IF Len(s) >= k THEN [res |-> "ok", n |-> k]
    ELSE IF status = "open" THEN [res |-> "pending", n |-> 0]
    ELSE [res |-> "err", n |-> Len(s)]

(***************************************************************************)
(* ChannelMessage and deserialize_message.                                 *)
(***************************************************************************)
\* A faulty deserialize_message, for comparison: every frame is taken as JSON.
deserialize_message_json_only(command, data) == [type |-> "Json", data |-> data]

deserialize_message(command, data) ==
    CASE command = 123 -> [type |-> "Json", data |-> data]
      [] command = 68  -> [type |-> "Debug", data |-> data]
      [] command = 87  -> [type |-> "Warn", data |-> data]
      [] command = 69  -> [type |-> "Error", data |-> data]
      [] command = 88  -> [type |-> "Dump", data |-> data]
      [] OTHER         -> [type |-> "Unknown", command |-> command, data |-> data]

\* The tag byte a message was classified by.
TagOf(m) ==
    CASE m.type = "Json"  -> 123
      [] m.type = "Debug" -> 68
      [] m.type = "Warn"  -> 87
      [] m.type = "Error" -> 69
      [] m.type = "Dump"  -> 88
      [] OTHER            -> m.command

\* `let _ = sender.send(message);` : the Send future is created and dropped
\* without being polled, so the channel is left as it was.
SendNotAwaited(q, m) == q

(***************************************************************************)
(* One iteration of the reader task's loop on buffer b, unread bytes s and *)
(* stream status.  out is "pending" while the iteration's reads cannot     *)
(* complete yet; otherwise "running" (loop again), "failed" (`?` returned  *)
(* the error) or "panicked" (unwrap or a slice index panicked).            *)
(***************************************************************************)
ReaderIteration(b, s, status) ==
    LET r1 == ReadUntil(s, 58, status)
        b1 == BufExtend(b, SubSeq(s, 1, r1.n))
        b2 == BufPop(b1)
        parsed == ParseUsize(BufSlice(b2, 1, r1.n))
        length == parsed.val
        rest == SubSeq(s, r1.n + 1, Len(s))
        r2 == ReadExact(rest, length + 1, status)
        b3 == BufWritePrefix(b2, SubSeq(rest, 1, length + 1))
        stop(state, buf, used) ==
            [out |-> state, bytes |-> buf, used |-> used, msgs |-> <<>>]
    IN  IF r1.res = "pending" THEN stop("pending", b, 0)
        ELSE IF r1.res = "err" THEN stop("failed", b1, r1.n)
        ELSE IF r1.n > BufLen(b2) \/ ~parsed.ok THEN stop("panicked", b2, r1.n)
        ELSE IF length + 1 > BufLen(b2) THEN stop("panicked", b2, r1.n)
        ELSE IF r2.res = "pending" THEN stop("pending", b, 0)
        ELSE IF r2.res = "err" THEN stop("failed", b2, r1.n + r2.n)
        ELSE IF length < 1 THEN stop("panicked", b3, r1.n + r2.n)
        ELSE [out |-> "running", bytes |-> b3, used |-> r1.n + r2.n,
              msgs |-> <<deserialize_message(BufAt(b3, 1), BufSlice(b3, 2, length))>>]

(***************************************************************************)
(* Frames the worker may put on the reader's stream besides echoing what   *)
(* the writer wrote: well-formed frames, and a frame declaring one byte    *)
(* more than the maximum payload.                                          *)
(***************************************************************************)
OversizedFrame ==
    [origin |-> "worker", kind |-> "oversized", payload |-> <<123, 97>>,
     wire |-> to_string(NS_PAYLOAD_MAX_LEN + 1) \o <<58, 123, 97>>]

WellFormedFrame(origin, P) ==
    [origin |-> origin, kind |-> "wellformed", payload |-> P, wire |-> Encode(P)]

\* A frame whose length field is not a decimal number: "x:{a,".
MalformedFrame ==
    [origin |-> "worker", kind |-> "malformed", payload |-> <<123, 97>>,
     wire |-> <<120, 58, 123, 97, 44>>]

WorkerFrames ==
    {WellFormedFrame("worker", P) : P \in Payloads} \cup {OversizedFrame, MalformedFrame}

(***************************************************************************)
(* Link: initial state and actions.                                        *)
(***************************************************************************)
LinkInit ==
    /\ sendQ = <<>>
    /\ writerState = "running"
    /\ wpipe = <<>>
    /\ rin = <<>>
    /\ rstatus = "open"
    /\ fed = <<>>
    /\ nframes = 0
    /\ consumed = 0
    /\ bytes = BufInit
    /\ readerState = "running"
    /\ decoded = <<>>
    /\ recvQ = <<>>
    /\ executor = "running"

\* The send side of the link is handed a message: Sender::send on the
\* bounded(1) channel completes when there is room and the writer task
\* still holds the receiver.
Send(P) ==
    /\ writerState = "running"
    /\ Len(sendQ) < 1
    /\ nframes < MaxFrames
    /\ sendQ' = Append(sendQ, P)
    /\ nframes' = nframes + 1
    /\ UNCHANGED <<writerState, wpipe, rin, rstatus, fed, consumed, bytes,
                   readerState, decoded, recvQ, executor>>
    /\ UNCHANGED <<chanVars, lifeVars, decVars, stVars, idVars, lockVars>>

\* One iteration of the writer task: recv, build the frame, write_all.
\* A failed write ends the task through `?`.
WriterStep(ok) ==
    /\ executor = "running"
    /\ writerState = "running"
    /\ sendQ # <<>>
    /\ sendQ' = Tail(sendQ)
    /\ IF ok
       THEN /\ wpipe' = Append(wpipe, WellFormedFrame("writer", Head(sendQ)))
            /\ UNCHANGED writerState
       ELSE /\ writerState' = "failed"
            /\ UNCHANGED wpipe
    /\ UNCHANGED <<rin, rstatus, fed, nframes, consumed, bytes, readerState,
                   decoded, recvQ, executor>>
    /\ UNCHANGED <<chanVars, lifeVars, decVars, stVars, idVars, lockVars>>

\* The peer of the link feeds the oldest frame the writer wrote to the
\* reader's stream.
Echo ==
    /\ wpipe # <<>>
    /\ rstatus = "open"
    /\ rin' = rin \o Head(wpipe).wire
    /\ fed' = Append(fed, Head(wpipe))
    /\ wpipe' = Tail(wpipe)
    /\ UNCHANGED <<sendQ, writerState, rstatus, nframes, consumed, bytes,
                   readerState, decoded, recvQ, executor>>
    /\ UNCHANGED <<chanVars, lifeVars, decVars, stVars, idVars, lockVars>>

\* The worker writes a frame of its own to the reader's stream.
WorkerEmit(f) ==
    /\ rstatus = "open"
    /\ nframes < MaxFrames
    /\ rin' = rin \o f.wire
    /\ fed' = Append(fed, f)
    /\ nframes' = nframes + 1
    /\ UNCHANGED <<sendQ, writerState, wpipe, rstatus, consumed, bytes,
                   readerState, decoded, recvQ, executor>>
    /\ UNCHANGED <<chanVars, lifeVars, decVars, stVars, idVars, lockVars>>

\* The reader's stream ends (the worker closed it) or breaks.
SeverStream(how) ==
    /\ rstatus = "open"
    /\ rstatus' = how
    /\ UNCHANGED <<sendQ, writerState, wpipe, rin, fed, nframes, consumed, bytes,
                   readerState, decoded, recvQ, executor>>
    /\ UNCHANGED <<chanVars, lifeVars, decVars, stVars, idVars, lockVars>>

\* One iteration of the reader task's loop.  A panic of the task is
\* propagated by the executor to the thread that polled it: depending on
\* the executor in the build that thread unwinds (fate = "unwound") or the
\* panic is contained in the task (fate = "running").
ReaderStep(fate) ==
    /\ executor = "running"
    /\ readerState = "running"
    /\ LET it == ReaderIteration(bytes, rin, rstatus)
       IN  /\ it.out # "pending"
           /\ readerState' = it.out
           /\ bytes' = it.bytes
           /\ rin' = SubSeq(rin, it.used + 1, Len(rin))
           /\ consumed' = consumed + it.used
           /\ decoded' = decoded \o it.msgs
           /\ recvQ' = IF it.msgs = <<>> THEN recvQ
                       ELSE SendNotAwaited(recvQ, it.msgs[1])
           /\ executor' = IF it.out = "panicked" THEN fate ELSE executor
    /\ UNCHANGED <<sendQ, writerState, wpipe, rstatus, fed, nframes>>
    /\ UNCHANGED <<chanVars, lifeVars, decVars, stVars, idVars, lockVars>>

LinkNext ==
    \/ \E P \in Payloads : Send(P)
    \/ \E ok \in BOOLEAN : WriterStep(ok)
    \/ Echo
    \/ \E f \in WorkerFrames : WorkerEmit(f)
    \/ \E how \in {"eof", "err"} : SeverStream(how)
    \/ \E fate \in {"running", "unwound"} : ReaderStep(fate)

(***************************************************************************)
(* Channel: request/response correlation over the link's receive side.    *)
(***************************************************************************)
Callers == 1..MaxRequests

\* An id the channel never hands out.
UnknownId == MaxRequests + 100

Idle == [st |-> "idle", id |-> -1]

ChanInit ==
    /\ nextId = 0
    /\ pending = {}
    /\ reqId = [c \in Callers |-> -1]
    /\ results = [c \in Callers |-> Idle]
    /\ arrived = {}
    /\ nreplies = 0
    /\ chanClosed = FALSE

PendingIds == {p.id : p \in pending}

IssuedIds == {reqId[c] : c \in Callers} \ {-1}

\* A faulty AllocId, for comparison: the counter is not advanced.
AllocIdStuck(id) == id

\* A fresh correlation id: the counter's value, and the counter moves on.
AllocId(id) == id + 1

\* A faulty request(), for comparison: the closed flag is not looked at.
ChanRequestUnchecked(c) ==
    /\ results[c].st = "idle"
    /\ pending' = pending \cup {[id |-> nextId, caller |-> c]}
    /\ reqId' = [reqId EXCEPT ![c] = nextId]
    /\ nextId' = AllocId(nextId)
    /\ results' = [results EXCEPT ![c] = [st |-> "pending", id |-> -1]]
    /\ UNCHANGED <<arrived, nreplies, chanClosed>>
    /\ UNCHANGED <<linkVars, lifeVars, decVars, stVars, idVars, lockVars>>

\* request(): on a closed channel it fails at once; otherwise it takes a
\* fresh id, registers the response slot under it and waits.
ChanRequest(c) ==
    /\ results[c].st = "idle"
    /\ IF chanClosed
       THEN /\ results' = [results EXCEPT ![c] = [st |-> "closed", id |-> -1]]
            /\ UNCHANGED <<nextId, pending, reqId>>
       ELSE /\ pending' = pending \cup {[id |-> nextId, caller |-> c]}
            /\ reqId' = [reqId EXCEPT ![c] = nextId]
            /\ nextId' = AllocId(nextId)
            /\ results' = [results EXCEPT ![c] = [st |-> "pending", id |-> -1]]
    /\ UNCHANGED <<arrived, nreplies, chanClosed>>
    /\ UNCHANGED <<linkVars, lifeVars, decVars, stVars, idVars, lockVars>>

\* The worker answers a request it has received, in any order, or sends a
\* response that matches no request; the response reaches the receive side.
WorkerReply(id) ==
    /\ rstatus = "open"
    /\ ~chanClosed
    /\ nreplies < MaxReplies
    /\ id \in IssuedIds \cup {UnknownId}
    /\ arrived' = arrived \cup {id}
    /\ nreplies' = nreplies + 1
    /\ UNCHANGED <<nextId, pending, reqId, results, chanClosed>>
    /\ UNCHANGED <<linkVars, lifeVars, decVars, stVars, idVars, lockVars>>

\* The slot a response resolves: the pending requests registered under its id.
Matching(id) == {p \in pending : p.id = id}

\* The channel takes a response: it resolves the slot registered under its
\* id, and drops a response whose id matches no slot.
ChanDispatch(id) ==
    /\ executor = "running"
    /\ ~chanClosed
    /\ id \in arrived
    /\ arrived' = arrived \ {id}
    /\ pending' = pending \ Matching(id)
    /\ results' = [c \in Callers |->
                      IF \E p \in Matching(id) : p.caller = c
                      THEN [st |-> "ok", id |-> id]
                      ELSE results[c]]
    /\ UNCHANGED <<nextId, reqId, nreplies, chanClosed>>
    /\ UNCHANGED <<linkVars, lifeVars, decVars, stVars, idVars, lockVars>>

\* The receive side of the link is closed once the reader task is gone (its
\* sender is dropped).  The channel then resolves every pending slot with
\* the closed error.
ChanLinkClosed ==
    /\ executor = "running"
    /\ readerState # "running"
    /\ ~chanClosed
    /\ chanClosed' = TRUE
    /\ pending' = {}
    /\ arrived' = {}
    /\ results' = [c \in Callers |->
                      IF \E p \in pending : p.caller = c
                      THEN [st |-> "closed", id |-> -1]
                      ELSE results[c]]
    /\ UNCHANGED <<nextId, reqId, nreplies>>
    /\ UNCHANGED <<linkVars, lifeVars, decVars, stVars, idVars, lockVars>>

ChanNext ==
    \/ \E c \in Callers : ChanRequest(c)
    \/ \E id \in 0..UnknownId : WorkerReply(id)
    \/ \E id \in 0..UnknownId : ChanDispatch(id)
    \/ ChanLinkClosed
    \/ \E how \in {"eof", "err"} : SeverStream(how)
    \/ \E fate \in {"running", "unwound"} : ReaderStep(fate)

(***************************************************************************)
(* Entity lifecycle: one child entity on one parent transport.             *)
(***************************************************************************)
Kinds == {"consumer", "data_producer", "data_consumer"}

Events == {"close", "transport_close", "producer_close", "closed"}

\* The single-fire events an entity of kind k has (its Handlers struct).
EventsOf(k) ==
    CASE k = "consumer"      -> {"close", "transport_close", "producer_close"}
      [] k = "data_producer" -> {"close", "transport_close"}
      [] k = "data_consumer" -> {"closed"}

H == 1..MaxHandlers

\* pc is the position of the constructor (`new`): "start", then
\* "subscribed" (subscribe_to_notifications returned), "hooked"
\* (transport.on_close returned), "live" (inner_weak is set and the entity
\* was returned), and "dropped" once the last reference was dropped.
\* closed is the AtomicBool of Inner (for a DataConsumer, which has none:
\* whether Drop has run).  refs counts the application's handles.  reg[e] is
\* the set of handlers in the bag of event e, added[e] how many were ever
\* added, calls[e][h] how often handler h was invoked.  task is the close
\* task: "none", "spawned", "awaiting" (channel.request was called), "done".
\* call is the request method in flight.  closeErr says that the close task
\* has logged the failure of its request.  The remaining fields are
\* history; lateNotif says that the subscription's callback has run while
\* the entity was closed and still referenced.
EntInit ==
    [pc |-> "start", closed |-> FALSE, refs |-> 0,
     subscribed |-> FALSE, hook |-> FALSE,
     added |-> [e \in Events |-> 0],
     reg |-> [e \in Events |-> {}],
     calls |-> [e \in Events |-> [h \in H |-> 0]],
     task |-> "none", closeReqs |-> 0,
     call |-> "none",
     notifs |-> 0, tclosePc |-> "none",
     reqsAfterClose |-> 0,
     closeErr |-> FALSE, lateNotif |-> FALSE]

\* apps counts the application's handles of the transport; closed is set
\* by a close of the transport while it is referenced, dropped by the Drop
\* of its Inner.  closedReg is the number of callbacks in handlers.closed
\* (the application has connected one with connect_closed), closedCalls how
\* often such a callback was invoked.  subscribed is the transport's own
\* notification subscription (Inner._subscription_handler), closeRes the
\* outcome of the close request spawned by Drop: "none", "ok" or "err"
\* (logged).
TrInit ==
    [apps |-> 1, closed |-> FALSE, dropped |-> FALSE, closeReqs |-> 0,
     closedReg |-> 1, closedCalls |-> 0, subscribed |-> TRUE,
     closeRes |-> "none"]

LifeInit ==
    /\ kind \in Kinds
    /\ ent = EntInit
    /\ tr = TrInit

\* Arc<Inner> of the entity can be upgraded from inner_weak.
Upgradable(e) == e.pc = "live" /\ e.refs > 0

\* A faulty bag, for comparison: the handlers are invoked and stay in the
\* bag.
CallOnceKeeps(e, ev) ==
    [e EXCEPT !.calls[ev] = [h \in H |-> IF h \in e.reg[ev] THEN @[h] + 1 ELSE @[h]]]

\* BagOnce::call_simple / Bag::call_once_simple: every handler in the bag
\* is taken out and invoked.
CallOnce(e, ev) ==
    [e EXCEPT !.calls[ev] = [h \in H |-> IF h \in e.reg[ev] THEN @[h] + 1 ELSE @[h]],
              !.reg[ev] = {}]

\* A faulty Inner::close, for comparison: the closed flag is read but not set.
InnerCloseNoSwap(e) ==
    IF e.closed THEN e
    ELSE [CallOnce(e, "close") EXCEPT !.task = "spawned"]

\* A faulty Inner::close, for comparison: the close request is handed to
\* the channel inside close(), before any handler is invoked.
InnerCloseRequestFirst(e) ==
    IF e.closed THEN e
    ELSE [e EXCEPT !.closed = TRUE, !.task = "awaiting", !.closeReqs = @ + 1]

\* A faulty Inner::close, for comparison: closing also drops the
\* notification subscription.
InnerCloseUnsubscribes(e) ==
    IF e.closed THEN e
    ELSE [CallOnce(e, "close") EXCEPT !.closed = TRUE, !.task = "spawned",
                                      !.subscribed = FALSE]

\* A faulty Inner::close, for comparison: a close of a closed entity
\* clears the flag.
InnerCloseReopens(e) ==
    IF e.closed THEN [e EXCEPT !.closed = FALSE]
    ELSE [CallOnce(e, "close") EXCEPT !.closed = TRUE, !.task = "spawned"]

\* Inner::close of Consumer and DataProducer: the first caller to swap the
\* flag invokes the close handlers and spawns the close task.
InnerClose(e) ==
    IF e.closed THEN e
    ELSE [CallOnce(e, "close") EXCEPT !.closed = TRUE, !.task = "spawned"]

\* Drop for Inner of DataConsumer: invokes the closed handlers and spawns
\* the close task.
DataConsumerDrop(e) ==
    [CallOnce(e, "closed") EXCEPT !.closed = TRUE, !.task = "spawned"]

\* A faulty child, for comparison: it holds no strong reference to its
\* transport.
ChildHoldsNothing(k, e) == 0

\* A faulty close task, for comparison: it gives up its reference to the
\* transport as soon as it has handed its request to the channel.
ChildHoldsUntilIssued(k, e) ==
    (IF e.pc \in {"start", "subscribed", "hooked", "live"} THEN 1 ELSE 0)
    + (IF k # "data_consumer" /\ e.task = "spawned" THEN 1 ELSE 0)

\* Strong references to the transport held on behalf of the child: by its
\* constructor or its Inner, and by the close task of a Consumer or
\* DataProducer until its request has resolved.
ChildHolds(k, e) ==
    (IF e.pc \in {"start", "subscribed", "hooked", "live"} THEN 1 ELSE 0)
    + (IF k # "data_consumer" /\ e.task \in {"spawned", "awaiting"} THEN 1 ELSE 0)

TransportStrong == tr.apps + ChildHolds(kind, ent)

\* Consumer::new / DataConsumer::new: channel.subscribe_to_notifications.
NewSubscribe ==
    /\ kind \in {"consumer", "data_consumer"}
    /\ ent.pc = "start"
    /\ ent' = [ent EXCEPT !.pc = "subscribed", !.subscribed = TRUE]
    /\ UNCHANGED <<kind, tr>>
    /\ UNCHANGED <<linkVars, chanVars, decVars, stVars, idVars, lockVars>>

\* Consumer::new / DataProducer::new: transport.on_close(...).
NewHook ==
    /\ \/ kind = "consumer" /\ ent.pc = "subscribed"
       \/ kind = "data_producer" /\ ent.pc = "start"
    /\ ent' = [ent EXCEPT !.pc = "hooked", !.hook = TRUE]
    /\ UNCHANGED <<kind, tr>>
    /\ UNCHANGED <<linkVars, chanVars, decVars, stVars, idVars, lockVars>>

\* The constructor builds Inner, sets inner_weak (Consumer, DataProducer)
\* and returns the entity to the application.
NewFinish ==
    /\ \/ kind \in {"consumer", "data_producer"} /\ ent.pc = "hooked"
       \/ kind = "data_consumer" /\ ent.pc = "subscribed"
    /\ ent' = [ent EXCEPT !.pc = "live", !.refs = 1]
    /\ UNCHANGED <<kind, tr>>
    /\ UNCHANGED <<linkVars, chanVars, decVars, stVars, idVars, lockVars>>

\* The application clones its handle.
CloneHandle ==
    /\ ent.pc = "live"
    /\ ent.refs \in 1..(MaxRefs - 1)
    /\ ent' = [ent EXCEPT !.refs = @ + 1]
    /\ UNCHANGED <<kind, tr>>
    /\ UNCHANGED <<linkVars, chanVars, decVars, stVars, idVars, lockVars>>

\* The application drops a handle.  Dropping the last one runs Drop for
\* Inner and then drops Inner's fields: the notification subscription and
\* the transport-close hook go away.
DropHandle ==
    /\ ent.pc = "live"
    /\ ent.refs > 0
    /\ ent.refs > 1 \/ ent.call = "none"
    /\ IF ent.refs > 1
       THEN ent' = [ent EXCEPT !.refs = @ - 1]
       ELSE LET e1 == IF kind = "data_consumer" THEN DataConsumerDrop(ent)
                      ELSE InnerClose(ent)
            IN  ent' = [e1 EXCEPT !.refs = 0, !.pc = "dropped",
                                  !.subscribed = FALSE, !.hook = FALSE]
    /\ UNCHANGED <<kind, tr>>
    /\ UNCHANGED <<linkVars, chanVars, decVars, stVars, idVars, lockVars>>

\* Number of handlers the application has added to the entity's bags.
HandlersAdded(e) ==
    e.added["closed"] + e.added["close"] + e.added["transport_close"]
    + e.added["producer_close"]

\* on_close, on_transport_close, on_producer_close, on_closed: the
\* application adds a handler to the bag of a single-fire event.
RegisterHandler(ev) ==
    /\ ent.pc = "live"
    /\ ent.refs > 0
    /\ ev \in EventsOf(kind)
    /\ HandlersAdded(ent) < MaxHandlers
    /\ ent' = [ent EXCEPT !.added[ev] = @ + 1, !.reg[ev] = @ \cup {ent.added[ev] + 1}]
    /\ UNCHANGED <<kind, tr>>
    /\ UNCHANGED <<linkVars, chanVars, decVars, stVars, idVars, lockVars>>

\* DataProducer::close.
ExplicitClose ==
    /\ kind = "data_producer"
    /\ ent.pc = "live"
    /\ ent.refs > 0
    /\ ent' = InnerClose(ent)
    /\ UNCHANGED <<kind, tr>>
    /\ UNCHANGED <<linkVars, chanVars, decVars, stVars, idVars, lockVars>>

\* The Consumer's notification handler on Notification::ProducerClose.
OnProducerClose(e) ==
    LET e1 == CallOnce(e, "producer_close")
    IN  IF Upgradable(e1) THEN InnerClose(e1) ELSE e1

\* The DataConsumer's notification handler on Notification::DataProducerClose.
OnDataProducerClose(e) == e

\* A producerclose / dataproducerclose notification is dispatched to the
\* entity's subscription.
NotifyPeerClose ==
    /\ kind \in {"consumer", "data_consumer"}
    /\ ent.subscribed
    /\ ent.notifs < MaxNotifs
    /\ LET e1 == IF kind = "consumer" THEN OnProducerClose(ent)
                 ELSE OnDataProducerClose(ent)
       IN  ent' = [e1 EXCEPT !.notifs = @ + 1,
                             !.lateNotif = @ \/ (ent.closed /\ ent.refs > 0)]
    /\ UNCHANGED <<kind, tr>>
    /\ UNCHANGED <<linkVars, chanVars, decVars, stVars, idVars, lockVars>>

\* The closure Consumer::new / DataProducer::new registered with
\* transport.on_close.
OnTransportClose(e) ==
    IF Upgradable(e) THEN InnerClose(CallOnce(e, "transport_close")) ELSE e

\* The transport closes while it is still referenced and invokes the
\* callbacks registered with on_close, each once.
TransportClose ==
    /\ ~tr.closed
    /\ ~tr.dropped
    /\ tr' = [tr EXCEPT !.closed = TRUE]
    /\ LET e1 == IF ent.hook THEN OnTransportClose(ent) ELSE ent
       IN  ent' = [e1 EXCEPT !.hook = FALSE, !.tclosePc = ent.pc]
    /\ UNCHANGED kind
    /\ UNCHANGED <<linkVars, chanVars, decVars, stVars, idVars, lockVars>>

\* The application drops a handle of the transport.
DropTransportHandle ==
    /\ tr.apps > 0
    /\ tr' = [tr EXCEPT !.apps = @ - 1]
    /\ UNCHANGED <<kind, ent>>
    /\ UNCHANGED <<linkVars, chanVars, decVars, stVars, idVars, lockVars>>

\* Drop for Inner of WebRtcTransport, when its last strong reference is
\* gone: the closed callbacks are taken out of the list and invoked, and
\* the close request is spawned.
TransportDrop ==
    /\ ~tr.dropped
    /\ TransportStrong = 0
    /\ tr' = [tr EXCEPT !.dropped = TRUE, !.closed = TRUE, !.closeReqs = @ + 1,
                        !.closedReg = 0, !.closedCalls = @ + tr.closedReg,
                        !.subscribed = FALSE]
    /\ ent' = [(IF ent.hook THEN OnTransportClose(ent) ELSE ent) EXCEPT !.hook = FALSE]
    /\ UNCHANGED kind
    /\ UNCHANGED <<linkVars, chanVars, decVars, stVars, idVars, lockVars>>

\* The executor polls the close task: it calls channel.request.
CloseTaskIssue ==
    /\ ent.task = "spawned"
    /\ ent' = [ent EXCEPT !.task = "awaiting", !.closeReqs = @ + 1]
    /\ UNCHANGED <<kind, tr>>
    /\ UNCHANGED <<linkVars, chanVars, decVars, stVars, idVars, lockVars>>

\* A faulty close task, for comparison: a failed request is made again.
CloseTaskResolveRetry(ok) ==
    /\ ent.task = "awaiting"
    /\ ent' = [ent EXCEPT !.task = IF ok THEN "done" ELSE "spawned",
                          !.closeErr = ~ok]
    /\ UNCHANGED <<kind, tr>>
    /\ UNCHANGED <<linkVars, chanVars, decVars, stVars, idVars, lockVars>>

\* The close request resolves, with a response or an error (which is only
\* logged); the task ends and drops its reference to the transport.
CloseTaskResolve(ok) ==
    /\ ent.task = "awaiting"
    /\ ent' = [ent EXCEPT !.task = "done", !.closeErr = ~ok]
    /\ UNCHANGED <<kind, tr>>
    /\ UNCHANGED <<linkVars, chanVars, decVars, stVars, idVars, lockVars>>

\* The close request spawned by the transport's Drop resolves; an error is
\* only logged.
TransportCloseResolve(ok) ==
    /\ tr.dropped
    /\ tr.closeRes = "none"
    /\ tr' = [tr EXCEPT !.closeRes = IF ok THEN "ok" ELSE "err"]
    /\ UNCHANGED <<kind, ent>>
    /\ UNCHANGED <<linkVars, chanVars, decVars, stVars, idVars, lockVars>>

\* The request methods modelled: Consumer::pause and Consumer::resume, and
\* DirectDataProducer::send.
MethodsOf(k) ==
    CASE k = "consumer"      -> {"pause", "resume"}
      [] k = "data_producer" -> {"send"}
      [] k = "data_consumer" -> {}

\* A request method is called on the entity: it hands its request (send:
\* its notification) to the channel, whatever the closed flag says.
MethodCall(m) ==
    /\ m \in MethodsOf(kind)
    /\ ent.pc = "live"
    /\ ent.refs > 0
    /\ ent.call = "none"
    /\ ent.closed => ent.reqsAfterClose < MaxCalls
    /\ ent' = [ent EXCEPT !.call = m,
                          !.reqsAfterClose = @ + (IF ent.closed THEN 1 ELSE 0)]
    /\ UNCHANGED <<kind, tr>>
    /\ UNCHANGED <<linkVars, chanVars, decVars, stVars, idVars, lockVars>>

\* The awaited request resolves and the method returns.  What the method
\* then does to the cached fields and the pause and resume handlers of a
\* Consumer is modelled by MethodEnd, in the section on cached state.
MethodReturn(ok) ==
    /\ ent.call # "none"
    /\ ent' = [ent EXCEPT !.call = "none"]
    /\ UNCHANGED <<kind, tr>>
    /\ UNCHANGED <<linkVars, chanVars, decVars, stVars, idVars, lockVars>>

LifeNext ==
    \/ NewSubscribe
    \/ NewHook
    \/ NewFinish
    \/ CloneHandle
    \/ DropHandle
    \/ \E ev \in Events : RegisterHandler(ev)
    \/ ExplicitClose
    \/ NotifyPeerClose
    \/ TransportClose
    \/ DropTransportHandle
    \/ TransportDrop
    \/ CloseTaskIssue
    \/ \E ok \in BOOLEAN : CloseTaskResolve(ok)
    \/ \E ok \in BOOLEAN : TransportCloseResolve(ok)
    \/ \E m \in {"pause", "resume", "send"} : MethodCall(m)
    \/ \E ok \in BOOLEAN : MethodReturn(ok)

(***************************************************************************)
(* Decoding of a received frame on its own: the statement that follows     *)
(* read_exact in the reader task's loop, applied to the frames of a        *)
(* stream one after the other.  Both pipe pairs of the worker, the channel *)
(* and the payload channel, are read by the same task body.                *)
(***************************************************************************)
\* Tag bytes '{', 'D', 'W', 'E', 'X' and a byte that is no tag.
DecBytes == {123, 68, 87, 69, 88, 97}

DecPayloads == SeqsUpTo(DecBytes, MaxDecLen) \ {<<>>}

\* A structured message frame of the payload channel.
Structured == {P \in DecPayloads : Head(P) = 123}

\* What the worker writes: on the channel one or two frames; on the
\* payload channel a structured frame followed by its raw binary frame.
DecStreams(chan) ==
    IF chan = "channel"
    THEN {<<P>> : P \in DecPayloads} \cup {<<P, Q>> : P \in DecPayloads, Q \in DecPayloads}
    ELSE {<<P, Q>> : P \in Structured, Q \in DecPayloads}

DecIdle == dChan = "channel" /\ dIn = <<>> /\ dOut = <<>>

DecInit ==
    /\ dChan \in {"channel", "payload"}
    /\ dIn \in DecStreams(dChan)
    /\ dOut = <<>>

\* The message the reader task builds from a frame with payload P: after
\* read_exact put the payload and its ',' at the start of the buffer,
\* deserialize_message(bytes[0], Vec::from(&bytes[1..length])).
MessageOf(P) ==
    LET length == Len(P)
        b == BufWritePrefix(BufInit, P \o <<44>>)
    IN  deserialize_message(BufAt(b, 1), BufSlice(b, 2, length))

\* The reader task builds the message of the next frame of the stream.
DecodeFrame ==
    /\ Len(dOut) < Len(dIn)
    /\ dOut' = Append(dOut, MessageOf(dIn[Len(dOut) + 1]))
    /\ UNCHANGED <<dChan, dIn>>
    /\ UNCHANGED <<linkVars, chanVars, lifeVars, stVars, idVars, lockVars>>

DecNext == DecodeFrame

(***************************************************************************)
(* Cached state and multi-fire handlers of a Consumer and of a             *)
(* WebRtcTransport: what the notification handler and the request methods  *)
(* write, and which handlers they invoke.  The single-fire bags and the    *)
(* close sequence are in the lifecycle section.                            *)
(***************************************************************************)
\* Two distinguishable values of a cached field (a score, a layer pair, an
\* ICE state, ...); for an Option, 0 stands for None.
Vals == {0, 1}

SKinds == {"consumer", "transport"}

\* The multi-fire handler lists of Handlers.
ConEvents ==
    {"pause", "resume", "producer_pause", "producer_resume", "score",
     "layers_change"}

WtEvents ==
    {"ice_state_change", "ice_selected_tuple_change", "dtls_state_change",
     "sctp_state_change"}

MultiEvents(k) == IF k = "consumer" THEN ConEvents ELSE WtEvents

AllMultiEvents == ConEvents \cup WtEvents

\* The events whose notification carries a value that is cached.
StateEvents(k) ==
    IF k = "consumer" THEN {"score", "layers_change"} ELSE WtEvents

\* Inner of a Consumer after Consumer::new: paused and producer_paused are
\* arguments of new (drawn in StInit), priority starts at 1.
ConInit ==
    [paused |-> FALSE, producer_paused |-> FALSE, priority |-> 1,
     preferred_layers |-> 0, score |-> 0, current_layers |-> 0,
     closed |-> FALSE]

\* WebRtcTransportData, and the dispatch of a notification to a handler
\* list: disp.ev is the list whose Mutex the notification handler holds
\* ("none": no dispatch is running), disp.v the notified value, disp.n the
\* length of the locked list and disp.i how many of its callbacks have been
\* called.  stuck tells what became of the dispatching thread when a
\* callback locked the list again: "none", "deadlock" or "panic".
WtInit ==
    [data |-> [ice_state |-> 0, ice_selected_tuple |-> 0, dtls_state |-> 0,
               sctp_state |-> 0, dtls_role |-> 0],
     disp |-> [ev |-> "none", v |-> 0, i |-> 0, n |-> 0],
     stuck |-> "none"]

NoReq == [m |-> "none", arg |-> 0]

\* What the last step did: the operation, what a request method returned,
\* and the handler invocations in order.  An invocation tells the event,
\* how many handlers were called, the argument they got and the value the
\* cached field had when they were called.
OutOf(op, ret, fired) == [op |-> op, ret |-> ret, fired |-> fired]

StIdle ==
    /\ skind = "consumer"
    /\ con = ConInit
    /\ wt = WtInit
    /\ handlers = [e \in AllMultiEvents |-> 0]
    /\ req = NoReq
    /\ out = OutOf("new", "none", <<>>)

StInit ==
    /\ skind \in SKinds
    /\ \E p, pp \in BOOLEAN :
          con = [ConInit EXCEPT !.paused = p /\ skind = "consumer",
                                !.producer_paused = pp /\ skind = "consumer"]
    /\ wt = WtInit
    /\ handlers = [e \in AllMultiEvents |-> 0]
    /\ req = NoReq
    /\ out = OutOf("new", "none", <<>>)

\* The cached field a state-carrying event writes.
Cached(c, w, ev) ==
    CASE ev = "score"                     -> c.score
      [] ev = "layers_change"             -> c.current_layers
      [] ev = "ice_state_change"          -> w.data.ice_state
      [] ev = "ice_selected_tuple_change" -> w.data.ice_selected_tuple
      [] ev = "dtls_state_change"         -> w.data.dtls_state
      [] ev = "sctp_state_change"         -> w.data.sctp_state

\* The application may add one more handler for event ev: it adds at most
\* MaxHandlers handlers, all of them for the same event.
MayAdd(ev) ==
    /\ handlers[ev] < MaxHandlers
    /\ \A e \in AllMultiEvents \ {ev} : handlers[e] = 0

\* Bag::call / call_simple: every handler of the list is called once.
Fire(ev, arg, seen) == [ev |-> ev, n |-> handlers[ev], arg |-> arg, seen |-> seen]

\* on_pause, on_resume, on_score, ... of a Consumer: a handler is added.
ConRegister(ev) ==
    /\ skind = "consumer"
    /\ ev \in ConEvents
    /\ MayAdd(ev)
    /\ handlers' = [handlers EXCEPT ![ev] = @ + 1]
    /\ out' = OutOf("register", "none", <<>>)
    /\ UNCHANGED <<skind, con, wt, req>>
    /\ UNCHANGED <<linkVars, chanVars, lifeVars, decVars, idVars, lockVars>>

\* A faulty notification handler, for comparison: a body that cannot be
\* parsed closes the entity.
OnUnparsableCloses(c) == [c EXCEPT !.closed = TRUE]

\* The Err arm of the notification handler: the error is logged.
OnUnparsable(c) == c

\* A faulty ProducerPause arm, for comparison: the pause handlers are called
\* whatever the state was.
OnProducerPauseAlways(c) ==
    [c |-> [c EXCEPT !.producer_paused = TRUE],
     fired |-> <<Fire("producer_pause", 0, 0), Fire("pause", 0, 0)>>]

\* The ProducerPause arm of the Consumer's notification handler.
OnProducerPause(c) ==
    LET was_paused == c.paused \/ c.producer_paused
    IN  [c |-> [c EXCEPT !.producer_paused = TRUE],
         fired |-> <<Fire("producer_pause", 0, 0)>>
                   \o (IF ~was_paused THEN <<Fire("pause", 0, 0)>> ELSE <<>>)]

\* The ProducerResume arm.
OnProducerResume(c) ==
    LET was_paused == c.paused \/ c.producer_paused
    IN  [c |-> [c EXCEPT !.producer_paused = FALSE],
         fired |-> <<Fire("producer_resume", 0, 0)>>
                   \o (IF was_paused /\ ~c.paused THEN <<Fire("resume", 0, 0)>>
                       ELSE <<>>)]

\* The Score arm: the cached score is written, then the handlers are called.
OnScore(c, v) ==
    LET c1 == [c EXCEPT !.score = v]
    IN  [c |-> c1, fired |-> <<Fire("score", v, c1.score)>>]

\* The LayersChange arm.
OnLayersChange(c, v) ==
    LET c1 == [c EXCEPT !.current_layers = v]
    IN  [c |-> c1, fired |-> <<Fire("layers_change", v, c1.current_layers)>>]

\* The notifications a Consumer's subscription can be handed; "bad" is a
\* body that serde_json::from_value::<Notification> rejects.
ConNotifications ==
    {[event |-> e, v |-> 0] :
        e \in {"producerclose", "producerpause", "producerresume", "bad"}}
    \cup {[event |-> e, v |-> v] : e \in {"score", "layerschange"}, v \in Vals}

\* The closure Consumer::new hands to subscribe_to_notifications.
OnConNotification(c, n) ==
    CASE n.event = "producerclose"  -> [c |-> [c EXCEPT !.closed = TRUE], fired |-> <<>>]
      [] n.event = "producerpause"  -> OnProducerPause(c)
      [] n.event = "producerresume" -> OnProducerResume(c)
      [] n.event = "score"          -> OnScore(c, n.v)
      [] n.event = "layerschange"   -> OnLayersChange(c, n.v)
      [] n.event = "bad"            -> [c |-> OnUnparsable(c), fired |-> <<>>]

\* A notification for the Consumer is dispatched to its subscription.
ConNotify(n) ==
    /\ skind = "consumer"
    /\ n \in ConNotifications
    /\ LET r == OnConNotification(con, n)
       IN  /\ con' = r.c
           /\ out' = OutOf(n.event, "none", r.fired)
    /\ UNCHANGED <<skind, wt, handlers, req>>
    /\ UNCHANGED <<linkVars, chanVars, lifeVars, decVars, idVars, lockVars>>

\* The request methods that write cached state, with their arguments.
StMethods(k) ==
    IF k = "consumer"
    THEN {[m |-> m, arg |-> 0] : m \in {"pause", "resume", "unset_priority"}}
         \cup {[m |-> m, arg |-> 1] : m \in {"set_priority", "set_preferred_layers"}}
    ELSE {[m |-> "connect", arg |-> 1]}

\* A request method is called: it hands its request to the channel and
\* awaits the response.
MethodBegin(r) ==
    /\ r \in StMethods(skind)
    /\ req = NoReq
    /\ req' = r
    /\ out' = OutOf("call", "none", <<>>)
    /\ UNCHANGED <<skind, con, wt, handlers>>
    /\ UNCHANGED <<linkVars, chanVars, lifeVars, decVars, idVars, lockVars>>

\* A faulty Consumer::pause / resume, for comparison: the cached flag is
\* written whether the request succeeded or not.
ConMethodEndUnchecked(c, m, ok, resp) ==
    CASE m = "pause"  -> [c |-> [c EXCEPT !.paused = TRUE], fired |-> <<>>]
      [] m = "resume" -> [c |-> [c EXCEPT !.paused = FALSE], fired |-> <<>>]
      [] OTHER        -> [c |-> c, fired |-> <<>>]

\* What a Consumer's request method does once the awaited request has
\* resolved: on an error `?` returns it; otherwise the method writes the
\* cached field (from the response, for the priority and the preferred
\* layers; the response's priority is resp + 1, that is 1 or 2) and pause
\* and resume call their handlers.
ConMethodEnd(c, m, ok, resp) ==
    IF ~ok THEN [c |-> c, fired |-> <<>>]
    ELSE LET was_paused == c.paused \/ c.producer_paused
         IN  CASE m = "pause" ->
                    [c |-> [c EXCEPT !.paused = TRUE],
                     fired |-> IF ~was_paused THEN <<Fire("pause", 0, 0)>> ELSE <<>>]
               [] m = "resume" ->
                    [c |-> [c EXCEPT !.paused = FALSE],
                     fired |-> IF was_paused THEN <<Fire("resume", 0, 0)>> ELSE <<>>]
               [] m \in {"set_priority", "unset_priority"} ->
                    [c |-> [c EXCEPT !.priority = resp + 1], fired |-> <<>>]
               [] m = "set_preferred_layers" ->
                    [c |-> [c EXCEPT !.preferred_layers = resp], fired |-> <<>>]

\* WebRtcTransport::connect after the await: the DTLS role of the response
\* is cached.
ConnectEnd(d, ok, resp) ==
    IF ok THEN [d EXCEPT !.dtls_role = resp] ELSE d

\* The awaited request resolves, with a response or an error, and the
\* method returns.
MethodEnd(ok, resp) ==
    /\ req # NoReq
    /\ resp \in Vals
    /\ IF skind = "consumer"
       THEN LET r == ConMethodEnd(con, req.m, ok, resp)
            IN  /\ con' = r.c
                /\ out' = OutOf(req.m, IF ok THEN "ok" ELSE "err", r.fired)
                /\ wt' = wt
       ELSE /\ wt' = [wt EXCEPT !.data = ConnectEnd(wt.data, ok, resp)]
            /\ out' = OutOf(req.m, IF ok THEN "ok" ELSE "err", <<>>)
            /\ con' = con
    /\ req' = NoReq
    /\ UNCHANGED <<skind, handlers>>
    /\ UNCHANGED <<linkVars, chanVars, lifeVars, decVars, idVars, lockVars>>

\* The notifications a WebRtcTransport's subscription can be handed.
WtNotifications ==
    {[event |-> e, v |-> v] : e \in WtEvents, v \in Vals}
    \cup {[event |-> "bad", v |-> 0]}

\* The write of the notified value into WebRtcTransportData.
WtStore(d, ev, v) ==
    CASE ev = "ice_state_change"          -> [d EXCEPT !.ice_state = v]
      [] ev = "ice_selected_tuple_change" -> [d EXCEPT !.ice_selected_tuple = v]
      [] ev = "dtls_state_change"         -> [d EXCEPT !.dtls_state = v]
      [] ev = "sctp_state_change"         -> [d EXCEPT !.sctp_state = v]

\* The closure WebRtcTransport::new hands to subscribe_to_notifications is
\* called: an unparsable body is logged; otherwise the value is cached and
\* the handler list of the event is locked for the `for` loop.
WtNotify(n) ==
    /\ skind = "transport"
    /\ n \in WtNotifications
    /\ wt.disp.ev = "none"
    /\ wt.stuck = "none"
    /\ IF n.event = "bad"
       THEN /\ wt' = wt
            /\ out' = OutOf("bad", "none", <<>>)
       ELSE /\ wt' = [wt EXCEPT !.data = WtStore(wt.data, n.event, n.v),
                                !.disp = [ev |-> n.event, v |-> n.v, i |-> 0,
                                          n |-> handlers[n.event]]]
            /\ out' = OutOf(n.event, "none", <<>>)
    /\ UNCHANGED <<skind, con, handlers, req>>
    /\ UNCHANGED <<linkVars, chanVars, lifeVars, decVars, idVars, lockVars>>

\* What can become of a thread that locks a std::sync::Mutex it already
\* holds: the call does not return; it blocks for ever or panics.
RelockOutcomes == {"deadlock", "panic"}

\* The loop calls the next callback of the locked list.  The callback may
\* itself call connect_*_change for the same event (reenter), which locks
\* the list again on the same thread.
WtCallback(reenter, outcome) ==
    /\ skind = "transport"
    /\ wt.disp.ev # "none"
    /\ wt.stuck = "none"
    /\ wt.disp.i < wt.disp.n
    /\ outcome \in RelockOutcomes
    /\ wt' = [wt EXCEPT !.disp.i = @ + 1,
                        !.stuck = IF reenter THEN outcome ELSE "none"]
    /\ out' = OutOf(IF reenter THEN "reenter" ELSE "callback", "none",
                    <<[ev |-> wt.disp.ev, n |-> 1, arg |-> wt.disp.v,
                       seen |-> Cached(con, wt, wt.disp.ev)]>>)
    /\ UNCHANGED <<skind, con, handlers, req>>
    /\ UNCHANGED <<linkVars, chanVars, lifeVars, decVars, idVars, lockVars>>

\* The loop is over and the guard of the list is dropped.
WtDispatchEnd ==
    /\ skind = "transport"
    /\ wt.disp.ev # "none"
    /\ wt.stuck = "none"
    /\ wt.disp.i = wt.disp.n
    /\ wt' = [wt EXCEPT !.disp = WtInit.disp]
    /\ out' = OutOf("dispatched", "none", <<>>)
    /\ UNCHANGED <<skind, con, handlers, req>>
    /\ UNCHANGED <<linkVars, chanVars, lifeVars, decVars, idVars, lockVars>>

\* connect_ice_state_change and its like, called by a thread that does not
\* hold the list: it gets the lock once no dispatch of the event holds it,
\* and pushes the callback.
WtRegister(ev) ==
    /\ skind = "transport"
    /\ ev \in WtEvents
    /\ wt.disp.ev # ev
    /\ MayAdd(ev)
    /\ handlers' = [handlers EXCEPT ![ev] = @ + 1]
    /\ out' = OutOf("register", "none", <<>>)
    /\ UNCHANGED <<skind, con, wt, req>>
    /\ UNCHANGED <<linkVars, chanVars, lifeVars, decVars, idVars, lockVars>>

StNext ==
    \/ \E ev \in ConEvents : ConRegister(ev)
    \/ \E n \in ConNotifications : ConNotify(n)
    \/ \E r \in StMethods(skind) : MethodBegin(r)
    \/ \E ok \in BOOLEAN : \E resp \in Vals : MethodEnd(ok, resp)
    \/ \E n \in WtNotifications : WtNotify(n)
    \/ \E reenter \in BOOLEAN : \E outcome \in RelockOutcomes :
          WtCallback(reenter, outcome)
    \/ WtDispatchEnd
    \/ \E ev \in WtEvents : WtRegister(ev)

(***************************************************************************)
(* Identifier allocation of a WebRtcTransport (SCTP stream ids, mids for   *)
(* consumers) and the weak handle of a DataProducer.                       *)
(***************************************************************************)
\* None of an Option<u16> or Option<usize>, told apart from every id.
None == -1

\* The values `mis` of the transport's SCTP parameters can take; None is a
\* transport without SCTP parameters.
MisValues == (0..MaxMis) \cup {None}

\* The stream ids callers pass to deallocate_sctp_stream_id: every id of
\* the largest table and one beyond it.
StreamIds == 0..MaxMis

\* The stream ids 0..mis of a transport (mis excluded).
TableIds(m) == IF m = None THEN {} ELSE 0..(m - 1)

\* WebRtcTransport::new: used_sctp_stream_ids maps every i in 0..mis to
\* false; it is empty without SCTP parameters.
UsedInit(m) == [i \in TableIds(m) |-> FALSE]

\* A DataProducer made by DataProducer::new(.., direct): its variant, the
\* number of handles the application holds, and whether a WeakDataProducer
\* made by downgrade exists; got is what the last upgrade returned: a
\* variant, or "None".
DataProducerNew(direct) ==
    [variant |-> IF direct THEN "Direct" ELSE "Regular",
     refs |-> 1, weak |-> FALSE, got |-> "not called"]

\* holds[i] counts the allocations of id i that have not been given back,
\* mids lists the values next_mid_for_consumers has returned, idOut tells
\* what the last call was, what it returned and, for an allocation, whether
\* every id of the transport was held when it was made.
IdIdle ==
    /\ sctp_mis = None
    /\ used_sctp_stream_ids = UsedInit(None)
    /\ holds = [i \in StreamIds |-> 0]
    /\ next_mid_for_consumers = 0
    /\ mids = <<>>
    /\ idOut = [op |-> "new", res |-> None, full |-> FALSE]
    /\ dprod = DataProducerNew(FALSE)

IdInit ==
    /\ sctp_mis \in MisValues
    /\ used_sctp_stream_ids = UsedInit(sctp_mis)
    /\ holds = [i \in StreamIds |-> 0]
    /\ next_mid_for_consumers = 0
    /\ mids = <<>>
    /\ idOut = [op |-> "new", res |-> None, full |-> FALSE]
    /\ \E direct \in BOOLEAN : dprod = DataProducerNew(direct)

\* The ids of the table that are not in use.
FreeIds(u) == {i \in DOMAIN u : ~u[i]}

\* A faulty allocate_sctp_stream_id, for comparison: the id is returned
\* but not marked.
AllocateUnmarked(u) ==
    IF FreeIds(u) = {} THEN {[res |-> None, used |-> u]}
    ELSE {[res |-> i, used |-> u] : i \in FreeIds(u)}

\* allocate_sctp_stream_id: the first entry met that is not in use is
\* marked and returned.  The table is a HashMap, so which one is met first
\* is not determined.
Allocate(u) ==
    IF FreeIds(u) = {} THEN {[res |-> None, used |-> u]}
    ELSE {[res |-> i, used |-> [u EXCEPT ![i] = TRUE]] : i \in FreeIds(u)}

\* deallocate_sctp_stream_id: the entry, if there is one, is marked unused.
Deallocate(u, id) == IF id \in DOMAIN u THEN [u EXCEPT ![id] = FALSE] ELSE u

AllocateSctpStreamId ==
    /\ \E r \in Allocate(used_sctp_stream_ids) :
          /\ used_sctp_stream_ids' = r.used
          /\ holds' = IF r.res = None THEN holds
                      ELSE [holds EXCEPT ![r.res] = @ + 1]
          /\ idOut' = [op |-> "allocate", res |-> r.res,
                       full |-> \A i \in TableIds(sctp_mis) : holds[i] > 0]
    /\ UNCHANGED <<sctp_mis, next_mid_for_consumers, mids, dprod>>
    /\ UNCHANGED <<linkVars, chanVars, lifeVars, decVars, stVars, lockVars>>

DeallocateSctpStreamId(id) ==
    /\ id \in StreamIds
    /\ used_sctp_stream_ids' = Deallocate(used_sctp_stream_ids, id)
    /\ holds' = [holds EXCEPT ![id] = 0]
    /\ idOut' = [op |-> "deallocate", res |-> id, full |-> FALSE]
    /\ UNCHANGED <<sctp_mis, next_mid_for_consumers, mids, dprod>>
    /\ UNCHANGED <<linkVars, chanVars, lifeVars, decVars, stVars, lockVars>>

\* A faulty fetch_add, for comparison: it returns the value after the
\* addition.
FetchAddReturnsNew(x) == [ret |-> x + 1, new |-> x + 1]

\* AtomicUsize::fetch_add(1): one indivisible step that returns the old
\* value.  The counter is 64 bits wide; MaxMids calls cannot wrap it.
FetchAdd(x) == [ret |-> x, new |-> x + 1]

\* next_mid_for_consumers, called by any thread.
NextMidForConsumers ==
    /\ Len(mids) < MaxMids
    /\ LET r == FetchAdd(next_mid_for_consumers)
       IN  /\ next_mid_for_consumers' = r.new
           /\ mids' = Append(mids, r.ret)
           /\ idOut' = [op |-> "next_mid", res |-> r.ret, full |-> FALSE]
    /\ UNCHANGED <<sctp_mis, used_sctp_stream_ids, holds, dprod>>
    /\ UNCHANGED <<linkVars, chanVars, lifeVars, decVars, stVars, lockVars>>

\* DataProducer::downgrade.
Downgrade ==
    /\ dprod.refs > 0
    /\ ~dprod.weak
    /\ dprod' = [dprod EXCEPT !.weak = TRUE]
    /\ idOut' = [op |-> "downgrade", res |-> None, full |-> FALSE]
    /\ UNCHANGED <<sctp_mis, used_sctp_stream_ids, holds, next_mid_for_consumers, mids>>
    /\ UNCHANGED <<linkVars, chanVars, lifeVars, decVars, stVars, lockVars>>

\* The variant of the DataProducer that WeakDataProducer::upgrade builds
\* around the upgraded Arc.
UpgradedVariant(d) == "Regular"

\* WeakDataProducer::upgrade: None once the DataProducer is gone.
Upgrade ==
    /\ dprod.weak
    /\ dprod' = [dprod EXCEPT !.got = IF dprod.refs > 0 THEN UpgradedVariant(dprod)
                                      ELSE "None"]
    /\ idOut' = [op |-> "upgrade", res |-> None, full |-> FALSE]
    /\ UNCHANGED <<sctp_mis, used_sctp_stream_ids, holds, next_mid_for_consumers, mids>>
    /\ UNCHANGED <<linkVars, chanVars, lifeVars, decVars, stVars, lockVars>>

\* The application drops its handle of the DataProducer.
DropDataProducer ==
    /\ dprod.refs > 0
    /\ dprod' = [dprod EXCEPT !.refs = @ - 1]
    /\ idOut' = [op |-> "drop", res |-> None, full |-> FALSE]
    /\ UNCHANGED <<sctp_mis, used_sctp_stream_ids, holds, next_mid_for_consumers, mids>>
    /\ UNCHANGED <<linkVars, chanVars, lifeVars, decVars, stVars, lockVars>>

IdNext ==
    \/ AllocateSctpStreamId
    \/ \E id \in StreamIds : DeallocateSctpStreamId(id)
    \/ NextMidForConsumers
    \/ Downgrade
    \/ Upgrade
    \/ DropDataProducer

(***************************************************************************)
(* The locks of a Consumer's cached state, statement by statement: the     *)
(* application thread runs a request method while the link-reading thread  *)
(* dispatches a notification.  The locks are parking_lot mutexes: a thread *)
(* that locks one it already holds never gets it.                          *)
(***************************************************************************)
Threads == {"app", "reader"}

\* The mutexes of Inner that guard cached state, and the handler list of a
\* transport that produce() locks.
CachedLocks == {"paused", "producer_paused", "score", "priority"}
LockNames == CachedLocks \cup {"new_producer"}

\* The request methods the application thread runs.
LockMethods == {"pause", "resume", "set_priority", "produce"}

\* The notifications the link-reading thread dispatches.
LockNotifications == {"producerpause", "producerresume", "score"}

\* What a handler does while it runs: nothing, or one getter of the consumer.
Getters == {"none", "paused", "producer_paused", "score"}

\* Position of a thread: the method or notification it runs (op), where it
\* is in it (pc), the event whose handlers it is calling (ev), the event
\* that follows (more), the handlers of ev already called (i), and the
\* getter the running handler calls (want).
ThIdle ==
    [pc |-> "idle", op |-> "none", ev |-> "none", more |-> "none", i |-> 0,
     want |-> "none"]

\* Consumer::new: paused and producer_paused as the worker reported them,
\* all locks free, no handler registered.
LockStart(p, pp) ==
    /\ cached = [paused |-> p, producer_paused |-> pp]
    /\ owner = [l \in LockNames |-> "none"]
    /\ th = [t \in Threads |-> ThIdle]
    /\ nh = 0
    /\ ppInit = pp
    /\ ppDone = [n |-> "none", calls |-> 0, handlers |-> 0]
    /\ lastEv = "none"

LockIdle == LockStart(FALSE, FALSE)

LockInit == \E p, pp \in BOOLEAN : LockStart(p, pp)

\* The locks a thread holds.
Held(t) == {l \in LockNames : owner[l] = t}

\* A faulty method, for comparison: pause and resume lock `paused` before
\* they send the request.
HeldAtAwaitPaused(m) == IF m \in {"pause", "resume"} THEN {"paused"} ELSE {}

\* The locks a request method holds when it awaits channel.request: the
\* request is the first statement of each method.
HeldAtAwait(m) == {}

\* The lock a method or a notification arm takes first and keeps to its end.
PrimaryLock(op) ==
    CASE op \in {"pause", "resume"} -> "paused"
      [] op \in {"producerpause", "producerresume"} -> "producer_paused"
      [] op = "produce" -> "new_producer"
      [] OTHER -> "none"

\* The lock a thread is about to take: its primary lock, the other flag's
\* lock where it reads the other flag (pause and resume read producer_paused
\* only when paused is false: `||` does not evaluate its right side
\* otherwise), the lock of the field it stores, or the lock of the getter
\* its handler calls.
WantLock(t) ==
    CASE th[t].pc = "lock" -> PrimaryLock(th[t].op)
      [] th[t].pc = "read" /\ t = "app" ->
            IF cached.paused THEN "none" ELSE "producer_paused"
      [] th[t].pc = "read" /\ t = "reader" -> "paused"
      [] th[t].pc = "store" -> IF t = "app" THEN "priority" ELSE "score"
      [] th[t].pc = "in_handler" -> th[t].want
      [] OTHER -> "none"

\* A thread waits for a lock somebody holds; it waits for ever when that
\* is the thread itself.
Blocked(t) == WantLock(t) # "none" /\ owner[WantLock(t)] # "none"
SelfBlocked(t) == WantLock(t) # "none" /\ owner[WantLock(t)] = t

\* on_pause, on_resume, ...: one more handler in every bag.
LockRegister ==
    /\ \A t \in Threads : th[t].pc = "idle"
    /\ nh < MaxHandlers
    /\ nh' = nh + 1
    /\ UNCHANGED <<cached, owner, th, ppInit, ppDone, lastEv>>
    /\ UNCHANGED <<linkVars, chanVars, lifeVars, decVars, stVars, idVars>>

\* The application calls a request method, which sends its request.
AppCall(m) ==
    /\ th["app"].pc = "idle"
    /\ \A l \in HeldAtAwait(m) : owner[l] = "none"
    /\ owner' = [l \in LockNames |-> IF l \in HeldAtAwait(m) THEN "app" ELSE owner[l]]
    /\ th' = [th EXCEPT !["app"] = [ThIdle EXCEPT !.pc = "await", !.op = m]]
    /\ UNCHANGED <<cached, nh, ppInit, ppDone, lastEv>>
    /\ UNCHANGED <<linkVars, chanVars, lifeVars, decVars, stVars, idVars>>

\* `.await?`: the response arrives; on an error the method returns.
AwaitDone(ok) ==
    /\ th["app"].pc = "await"
    /\ IF ok
       THEN /\ th' = [th EXCEPT !["app"].pc =
                         IF th["app"].op = "set_priority" THEN "store" ELSE "lock"]
            /\ UNCHANGED owner
       ELSE /\ th' = [th EXCEPT !["app"] = ThIdle]
            /\ owner' = [l \in LockNames |-> IF owner[l] = "app" THEN "none" ELSE owner[l]]
    /\ UNCHANGED <<cached, nh, ppInit, ppDone, lastEv>>
    /\ UNCHANGED <<linkVars, chanVars, lifeVars, decVars, stVars, idVars>>

\* The link-reading thread takes a notification of the consumer.
ReaderNotify(n) ==
    /\ th["reader"].pc = "idle"
    /\ th' = [th EXCEPT !["reader"] =
                 [ThIdle EXCEPT !.pc = IF n = "score" THEN "store" ELSE "lock",
                                !.op = n]]
    /\ UNCHANGED <<cached, owner, nh, ppInit, ppDone, lastEv>>
    /\ UNCHANGED <<linkVars, chanVars, lifeVars, decVars, stVars, idVars>>

\* `let mut paused = self.inner.paused.lock();` and its likes.
Acquire(t) ==
    /\ th[t].pc = "lock"
    /\ ~Blocked(t)
    /\ owner' = [owner EXCEPT ![PrimaryLock(th[t].op)] = t]
    /\ th' = [th EXCEPT ![t] =
                 IF th[t].op = "produce"
                 THEN [@ EXCEPT !.pc = "call", !.ev = "new_producer"]
                 ELSE [@ EXCEPT !.pc = "read"]]
    /\ UNCHANGED <<cached, nh, ppInit, ppDone, lastEv>>
    /\ UNCHANGED <<linkVars, chanVars, lifeVars, decVars, stVars, idVars>>

\* The events a method or notification arm fires, from the two flags as it
\* read them: first the one whose handlers are called next, then the one
\* after it.
FiredBy(op, p, pp) ==
    LET was == p \/ pp
    IN  CASE op = "pause" -> <<IF ~was THEN "pause" ELSE "none", "none">>
          [] op = "resume" -> <<IF was THEN "resume" ELSE "none", "none">>
          [] op = "producerpause" ->
                <<"producer_pause", IF ~was THEN "pause" ELSE "none">>
          [] op = "producerresume" ->
                <<"producer_resume", IF was /\ ~p THEN "resume" ELSE "none">>

\* The flags after the method or arm has written its own.
CachedAfter(op, c) ==
    CASE op = "pause" -> [c EXCEPT !.paused = TRUE]
      [] op = "resume" -> [c EXCEPT !.paused = FALSE]
      [] op = "producerpause" -> [c EXCEPT !.producer_paused = TRUE]
      [] op = "producerresume" -> [c EXCEPT !.producer_paused = FALSE]

\* `let was_paused = ...; *paused = ...;`: the thread, holding its own
\* flag's lock, reads the other flag under that flag's lock and writes its
\* own.
ReadFlags(t) ==
    /\ th[t].pc = "read"
    /\ ~Blocked(t)
    /\ LET evs == FiredBy(th[t].op, cached.paused, cached.producer_paused)
       IN  /\ th' = [th EXCEPT ![t] = [@ EXCEPT !.pc = "call", !.ev = evs[1],
                                                !.more = evs[2]]]
           /\ lastEv' = IF evs[1] \in {"pause", "resume"} THEN evs[1] ELSE lastEv
    /\ cached' = CachedAfter(th[t].op, cached)
    /\ UNCHANGED <<owner, nh, ppInit, ppDone>>
    /\ UNCHANGED <<linkVars, chanVars, lifeVars, decVars, stVars, idVars>>

\* `*self.inner.priority.lock() = ...` ends set_priority;
\* `*score.lock() = ...` is followed by the score handlers.
Store(t) ==
    /\ th[t].pc = "store"
    /\ ~Blocked(t)
    /\ th' = [th EXCEPT ![t] =
                 IF t = "app" THEN ThIdle
                 ELSE [@ EXCEPT !.pc = "call", !.ev = "score"]]
    /\ UNCHANGED <<cached, owner, nh, ppInit, ppDone, lastEv>>
    /\ UNCHANGED <<linkVars, chanVars, lifeVars, decVars, stVars, idVars>>

\* call_simple / call: the next handler of the event is invoked; it calls
\* getter g of the consumer, or none.
HandlerEnter(t, g) ==
    /\ th[t].pc = "call"
    /\ th[t].ev # "none"
    /\ th[t].i < nh
    /\ th' = [th EXCEPT ![t] = [@ EXCEPT !.pc = "in_handler", !.want = g]]
    /\ UNCHANGED <<cached, owner, nh, ppInit, ppDone, lastEv>>
    /\ UNCHANGED <<linkVars, chanVars, lifeVars, decVars, stVars, idVars>>

\* The handler returns, once its getter got the lock and gave it back.
HandlerReturn(t) ==
    /\ th[t].pc = "in_handler"
    /\ ~Blocked(t)
    /\ th' = [th EXCEPT ![t] = [@ EXCEPT !.pc = "call", !.want = "none",
                                         !.i = @ + 1]]
    /\ UNCHANGED <<cached, owner, nh, ppInit, ppDone, lastEv>>
    /\ UNCHANGED <<linkVars, chanVars, lifeVars, decVars, stVars, idVars>>

\* All handlers of the event were called: the next event follows, or the
\* method or arm ends and its guards are dropped.
EventDone(t) ==
    /\ th[t].pc = "call"
    /\ th[t].ev = "none" \/ th[t].i = nh
    /\ ppDone' = IF th[t].ev \in {"producer_pause", "producer_resume"}
                 THEN [n |-> th[t].op, calls |-> th[t].i, handlers |-> nh]
                 ELSE ppDone
    /\ IF th[t].more # "none"
       THEN /\ th' = [th EXCEPT ![t] = [@ EXCEPT !.ev = th[t].more,
                                                 !.more = "none", !.i = 0]]
            /\ lastEv' = th[t].more
            /\ UNCHANGED owner
       ELSE /\ th' = [th EXCEPT ![t] = ThIdle]
            /\ owner' = [l \in LockNames |-> IF owner[l] = t THEN "none" ELSE owner[l]]
            /\ UNCHANGED lastEv
    /\ UNCHANGED <<cached, nh, ppInit>>
    /\ UNCHANGED <<linkVars, chanVars, lifeVars, decVars, stVars, idVars>>

LockNext ==
    \/ LockRegister
    \/ \E m \in LockMethods : AppCall(m)
    \/ \E ok \in BOOLEAN : AwaitDone(ok)
    \/ \E n \in LockNotifications : ReaderNotify(n)
    \/ \E t \in Threads : Acquire(t)
    \/ \E t \in Threads : ReadFlags(t)
    \/ \E t \in Threads : Store(t)
    \/ \E t \in Threads, g \in Getters : HandlerEnter(t, g)
    \/ \E t \in Threads : HandlerReturn(t)
    \/ \E t \in Threads : EventDone(t)

Init == LinkInit /\ ChanInit /\ LifeInit /\ DecIdle /\ StIdle /\ IdIdle /\ LockIdle

\* The link and the channel on their own: no entity is being constructed.
InitLink ==
    LinkInit /\ ChanInit /\ kind = "consumer" /\ ent = EntInit /\ tr = TrInit /\ DecIdle
    /\ StIdle /\ IdIdle /\ LockIdle

InitDecode ==
    LinkInit /\ ChanInit /\ kind = "consumer" /\ ent = EntInit /\ tr = TrInit /\ DecInit
    /\ StIdle /\ IdIdle /\ LockIdle

SpecDecode == InitDecode /\ [][DecNext]_vars

SpecLink == InitLink /\ [][LinkNext]_vars

SpecChan == InitLink /\ [][ChanNext]_vars

SpecLife == Init /\ [][LifeNext]_vars

InitState ==
    LinkInit /\ ChanInit /\ kind = "consumer" /\ ent = EntInit /\ tr = TrInit /\ DecIdle
    /\ StInit /\ IdIdle /\ LockIdle

SpecState == InitState /\ [][StNext]_vars

InitIds ==
    LinkInit /\ ChanInit /\ kind = "consumer" /\ ent = EntInit /\ tr = TrInit /\ DecIdle
    /\ StIdle /\ IdInit /\ LockIdle

SpecIds == InitIds /\ [][IdNext]_vars

InitLock ==
    LinkInit /\ ChanInit /\ kind = "consumer" /\ ent = EntInit /\ tr = TrInit /\ DecIdle
    /\ StIdle /\ IdIdle /\ LockInit

SpecLock == InitLock /\ [][LockNext]_vars

\* The executor polls a task that can make progress.
SpecChanFair ==
    /\ SpecChan
    /\ WF_vars(\E fate \in {"running", "unwound"} : ReaderStep(fate))
    /\ WF_vars(ChanLinkClosed)
    /\ WF_vars(\E id \in 0..UnknownId : ChanDispatch(id))

(***************************************************************************)
(* Properties of the link.                                                 *)
(***************************************************************************)
RECURSIVE WireLen(_, _)
\* Number of bytes of the first j frames of frame sequence fs.
WireLen(fs, j) == IF j = 0 THEN 0 ELSE WireLen(fs, j - 1) + Len(fs[j].wire)

FrameStart(j) == WireLen(fed, j - 1)
FrameEnd(j) == WireLen(fed, j)

\* The reader has taken bytes of the j-th frame from its stream.
ReaderReached(j) == consumed > FrameStart(j)

\* The frames up to the j-th are all well-formed.
WellFormedUpTo(j) == \A i \in 1..j : fed[i].kind = "wellformed"

FrameSize(P) == Len(to_string(Len(P))) + 1 + Len(P) + 1

\* C1: framing round trip.  Once the reader has taken bytes of a frame the
\* writer task emitted for payload P (after well-formed frames only), it has
\* consumed the whole frame, len(str(len(P))) + 1 + len(P) + 1 bytes and no
\* more, and (P not empty) has decoded exactly one message for it whose tag
\* byte and data together are P.
C1_RoundTrip ==
    \A j \in 1..Len(fed) :
        (fed[j].origin = "writer" /\ WellFormedUpTo(j) /\ ReaderReached(j))
        => /\ consumed >= FrameStart(j) + FrameSize(fed[j].payload)
           /\ (j = Len(fed) => consumed = FrameStart(j) + FrameSize(fed[j].payload))
           /\ Len(fed[j].payload) > 0
              => /\ Len(decoded) >= j
                 /\ <<TagOf(decoded[j])>> \o decoded[j].data = fed[j].payload

\* The frames up to the j-th are well-formed and carry a tag byte.
TaggedUpTo(j) == WellFormedUpTo(j) /\ \A i \in 1..j : Len(fed[i].payload) > 0

\* C2: every well-formed frame the reader has read is on the receive side
\* of the link as one ChannelMessage, in stream order: the j-th message is
\* the one of the j-th frame and there are no more messages than frames.
C2_InOrderDelivery ==
    /\ Len(recvQ) <= Len(fed)
    /\ \A j \in 1..Len(fed) :
        (TaggedUpTo(j) /\ ReaderReached(j))
        => /\ Len(recvQ) >= j
           /\ recvQ[j] = deserialize_message(Head(fed[j].payload),
                                             Tail(fed[j].payload))

\* C10: a frame whose declared length exceeds NS_PAYLOAD_MAX_LEN is rejected
\* as a link error: once the reader has taken bytes of it the reader task
\* has ended with an error, and no message was decoded from it.
C10_OversizedRejected ==
    \A j \in 1..Len(fed) :
        (fed[j].kind = "oversized" /\ WellFormedUpTo(j - 1) /\ ReaderReached(j))
        => /\ readerState = "failed"
           /\ Len(decoded) < j

\* w is the netstring of message M: ASCII decimal digits of len(M) without
\* padding, ':', the bytes of M, ','.
IsNetstringOf(w, M) ==
    LET k == Len(w) - Len(M) - 2
    IN  /\ k >= 1
        /\ \A i \in 1..k : IsDigit(w[i])
        /\ k > 1 => w[1] # 48
        /\ DecVal(SubSeq(w, 1, k)) = Len(M)
        /\ w[k + 1] = 58
        /\ SubSeq(w, k + 2, k + 1 + Len(M)) = M
        /\ w[Len(w)] = 44

\* C14: whenever the writer task writes to its stream, it writes one whole
\* frame, <ASCII decimal len(message)> ':' <message> ',', for the oldest
\* message handed to the send side, after the frames written before; and
\* messages are queued on the send side in the order they were sent.
C14_WriterWritesNetstrings ==
    [][
        /\ (Len(wpipe') > Len(wpipe))
            => (/\ sendQ # <<>>
                /\ sendQ' = Tail(sendQ)
                /\ Len(wpipe') = Len(wpipe) + 1
                /\ SubSeq(wpipe', 1, Len(wpipe)) = wpipe
                /\ IsNetstringOf(wpipe'[Len(wpipe')].wire, Head(sendQ)))
        /\ (Len(sendQ') > Len(sendQ))
            => (SubSeq(sendQ', 1, Len(sendQ)) = sendQ)
    ]_vars

\* The writer task has written the frames of two messages, the second with
\* a payload.
C14_Witness ==
    /\ Len(wpipe) = 2
    /\ wpipe[1].origin = "writer"
    /\ Len(wpipe[2].payload) = MaxPayloadLen

\* The receive side of the link sees the link closed: the reader task, which
\* owns the only Sender, has ended and its future was dropped.
RecvClosed == readerState # "running"

\* The executor polls the reader task in this step.
ReaderPolled == readerState' # readerState \/ consumed' # consumed

\* C15: when the reader task's read fails with an I/O error (the stream is
\* broken and holds no further delimiter), the task ends with the error and
\* the receive side sees the link closed; from then on the task stays
\* ended and no message is decoded or put on the receive side.
C15_ReadErrorEndsLink ==
    /\ [][(readerState = "running" /\ rstatus = "err" /\ IndexOf(rin, 58) = 0
            /\ ReaderPolled)
           => (readerState' = "failed" /\ RecvClosed')]_vars
    /\ [][(readerState = "failed")
           => (readerState' = "failed" /\ decoded' = decoded /\ recvQ' = recvQ)]_vars

\* The stream broke and the reader task ended with the error, while a
\* frame the writer task wrote is still on its way.
C15_Witness ==
    /\ readerState = "failed"
    /\ rstatus = "err"
    /\ executor = "running"
    /\ wpipe # <<>>

\* C16: a malformed frame (here: a length field that is not a decimal
\* number) is fatal only to its link: once the reader has taken bytes of
\* it, the reader task has ended with an error, and the executor that also
\* runs the writer task and the tasks of the other link is still running.
C16_MalformedFatalToLinkOnly ==
    \A j \in 1..Len(fed) :
        (fed[j].kind = "malformed" /\ WellFormedUpTo(j - 1) /\ ReaderReached(j))
        => /\ readerState = "failed"
           /\ executor = "running"

(***************************************************************************)
(* Properties of the channel.                                              *)
(***************************************************************************)
\* C3: link-death liveness.  A request that is outstanding (no response for
\* it has arrived) when the stream from the worker is severed, by an I/O
\* error or by the end of the stream, eventually resolves with the
\* closed-channel error.
C3_SeveredResolvesClosed ==
    \A c \in Callers :
        (rstatus # "open" /\ results[c].st = "pending" /\ reqId[c] \notin arrived)
        ~> (results[c].st = "closed")

\* C4: the correlation ids of the outstanding requests are pairwise
\* distinct; a caller that got a response got the one carrying the id of
\* its own request; and dispatching a response whose id matches no
\* outstanding request changes neither the correlation table nor any
\* caller's result.
C4_IdsDistinctAndMatched ==
    /\ \A p, q \in pending : p.id = q.id => p = q
    /\ \A c \in Callers : results[c].st = "ok" => results[c].id = reqId[c]
    /\ \A c \in Callers : results[c].st = "pending" =>
            [id |-> reqId[c], caller |-> c] \in pending

C4_StrayDropped ==
    \A id \in arrived \ arrived' :
        (~chanClosed' /\ id \notin PendingIds) => UNCHANGED <<pending, results>>

C4_Correlation == [](C4_IdsDistinctAndMatched) /\ [][C4_StrayDropped]_vars

\* Three requests were outstanding at once and a later request was answered
\* while an earlier one is still waiting.
C4_Witness ==
    /\ \A c \in Callers : reqId[c] # -1
    /\ \E c1, c2 \in Callers :
        /\ reqId[c1] < reqId[c2]
        /\ results[c1].st = "pending"
        /\ results[c2].st = "ok"
        /\ reqId[c1] \in arrived

(***************************************************************************)
(* Properties of the entity lifecycle.                                     *)
(***************************************************************************)
\* The handlers of event ev that have been taken out of the bag.
Fired(ev) == (1..ent.added[ev]) \ ent.reg[ev]

\* C5: at-most-once close of a Consumer or DataProducer.  Whatever close
\* triggers occur (DataProducer::close, transport close, producerclose
\* notifications, drop of the last handle) and however often, the close
\* task is spawned exactly once when the entity closes and hands exactly
\* one close request to the channel, and each handler that was in the close
\* bag when the entity closed has been invoked exactly once; no close
\* handler is ever invoked twice, and none before the entity closes.
C5_CloseExactlyOnce ==
    kind \in {"consumer", "data_producer"} =>
        /\ ent.closeReqs <= 1
        /\ ent.closed <=> ent.task # "none"
        /\ ent.task \in {"awaiting", "done"} <=> ent.closeReqs = 1
        /\ \A h \in H : ent.calls["close"][h] <= 1
        /\ \A h \in H : ent.calls["close"][h] = 1 <=> (ent.closed /\ h \in Fired("close"))
        /\ ent.pc = "dropped" => ent.closed

\* A Consumer closed by a producerclose notification, then notified again,
\* hit by the close of its transport and dropped by the application: one
\* close request was made and the close handler ran once.
C5_Witness ==
    /\ kind = "consumer"
    /\ ent.notifs = 2
    /\ ent.tclosePc = "live"
    /\ ent.pc = "dropped"
    /\ ent.closeReqs = 1
    /\ ent.added["close"] = 1
    /\ ent.calls["close"][1] = 1

\* C6: cascade propagation.  A child that existed when its transport closed
\* (it was live, or its constructor had registered its transport-close hook)
\* is closed once it is in the application's hands, and the handlers that
\* were in its transport_close bag have been invoked exactly once.
C6_TransportCloseCascades ==
    (ent.tclosePc \in {"hooked", "live"} /\ ent.pc = "live")
    => /\ ent.closed
       /\ ent.task # "none"
       /\ \A h \in H : ent.calls["transport_close"][h] <= 1
       /\ (ent.tclosePc = "live" /\ kind # "data_consumer")
          => \A h \in Fired("transport_close") : ent.calls["transport_close"][h] = 1

\* C7: once a producerclose notification has been dispatched to the
\* Consumer's subscription, the Consumer (as soon as the application has
\* it) is closed, and the handlers taken out of its producer_close bag have
\* been invoked exactly once.
C7_ProducerCloseCloses ==
    (kind = "consumer" /\ ent.notifs >= 1 /\ ent.pc = "live")
    => /\ ent.closed
       /\ \A h \in Fired("producer_close") : ent.calls["producer_close"][h] = 1

\* C8: once a dataproducerclose notification has been delivered to a
\* DataConsumer that the application still holds, the DataConsumer is
\* closed: its closed handlers have been invoked and its close request was
\* spawned.
C8_DataProducerCloseCloses ==
    (kind = "data_consumer" /\ ent.notifs >= 1 /\ ent.pc = "live")
    => /\ ent.closed
       /\ ent.task # "none"
       /\ ent.reg["closed"] = {}

\* C9: a request method called on a closed entity hands no request to the
\* channel.
C9_NoRequestAfterClose == ent.reqsAfterClose = 0

(***************************************************************************)
(* Properties of the decoding of frames.                                   *)
(***************************************************************************)
\* C11: on the payload channel a structured message frame and the raw
\* binary frame that follows it are read as one unit: once both frames
\* have been taken, one message has been built for the pair and the raw
\* frame was not turned into a tagged message of its own.
C11_PairReadAsUnit ==
    (dChan = "payload" /\ Len(dOut) = Len(dIn)) => Len(dOut) = 1

\* C12: the Json message built from a frame whose payload is a JSON
\* document (first byte '{') carries that complete document.
C12_JsonCarriesDocument ==
    \A j \in 1..Len(dOut) :
        dIn[j][1] = 123 => (dOut[j].type = "Json" /\ dOut[j].data = dIn[j])

FiredInStep(ev) ==
    /\ ent'.reg[ev] = {}
    /\ \A h \in H :
        ent'.calls[ev][h] = ent.calls[ev][h] + (IF h \in ent.reg[ev] THEN 1 ELSE 0)

\* What a step may do to the close sequence of a Consumer or DataProducer.
CloseSequenceStep ==
    kind \in {"consumer", "data_producer"} =>
        /\ (~ent.closed /\ ent'.closed)
            => (/\ FiredInStep("close")
                /\ ent'.task = "spawned"
                /\ ent'.closeReqs = 0
                /\ (~tr.closed /\ tr'.closed) => FiredInStep("transport_close")
                /\ (ent'.notifs > ent.notifs) => FiredInStep("producer_close"))
        /\ (ent'.closeReqs > ent.closeReqs)
            => (/\ ent.closed
                /\ ent.task = "spawned"
                /\ ent'.task = "awaiting"
                /\ ent'.calls = ent.calls)

\* C18: order of the close sequence of a Consumer or DataProducer.  In the
\* step in which the entity closes, the handlers in its close bag are
\* invoked (and those in its transport_close bag when the transport is
\* what closed it, those in its producer_close bag when a producerclose
\* notification did), the close task is spawned and no close request has
\* been handed to the channel yet.  The request is handed over in a later
\* step, by the spawned task, and that step invokes no handler.
C18_HandlersBeforeCloseRequest == [][CloseSequenceStep]_vars

\* A Consumer closed by the close of its transport: its close and
\* transport_close handlers have run and its close task is spawned but has
\* not called channel.request yet.
C18_Witness ==
    /\ kind = "consumer"
    /\ ent.tclosePc = "live"
    /\ ent.closed
    /\ ent.task = "spawned"
    /\ ent.closeReqs = 0
    /\ ent.calls["close"][1] = 1
    /\ ent.calls["transport_close"][1] = 1

C20_ClosedEntityReleasesTransport ==
    (kind \in {"consumer", "data_producer"} /\ ent.closed /\ ent.task = "done")
    => ChildHolds(kind, ent) = 0

(***************************************************************************)
(* Properties of a closed channel.                                         *)
(***************************************************************************)
\* C21: the notification subscription of a Consumer, DataConsumer or
\* WebRtcTransport exists from the moment its constructor has subscribed
\* until its last reference is dropped.  Closing the entity does not remove
\* it, so the callback still runs for a closed entity that is referenced;
\* after the last reference is gone (and before the constructor has
\* subscribed) no notification is dispatched to it.
C21_SubscriptionWhileReferenced ==
    /\ (kind \in {"consumer", "data_consumer"}
            /\ ent.pc \in {"subscribed", "hooked", "live"}) => ent.subscribed
    /\ ent.pc \in {"start", "dropped"} => ~ent.subscribed
    /\ tr.subscribed <=> ~tr.dropped

C21_DispatchStep ==
    (ent'.notifs > ent.notifs) => (ent.pc \in {"subscribed", "hooked", "live"})

C21_SubscriptionLifetime ==
    [](C21_SubscriptionWhileReferenced) /\ [][C21_DispatchStep]_vars

\* A Consumer that was notified while it was closed and referenced, and
\* whose last handle has since been dropped.
C21_Witness ==
    /\ kind = "consumer"
    /\ ent.lateNotif
    /\ ent.closed
    /\ ent.pc = "dropped"
    /\ ~ent.subscribed

\* C27: a single-fire handler (close, transport_close, producer_close of a
\* Consumer or DataProducer, closed of a DataConsumer or WebRtcTransport) is
\* invoked at most once in the life of the entity, and once it has been
\* invoked it is no longer in its bag.
C27_SingleFire ==
    /\ \A ev \in EventsOf(kind) : \A h \in H :
          /\ ent.calls[ev][h] <= 1
          /\ ent.calls[ev][h] = 1 => h \notin ent.reg[ev]
    /\ tr.closedCalls <= 1
    /\ tr.closedCalls = 1 => tr.closedReg = 0

\* A Consumer whose producer_close handler ran, that was notified once more
\* while closed, and whose transport has run its closed callback.
C27_Witness ==
    /\ kind = "consumer"
    /\ ent.calls["producer_close"][1] = 1
    /\ ent.lateNotif
    /\ ent.notifs = 2
    /\ tr.closedCalls = 1

\* C28: the closed flag of a Consumer or DataProducer never goes back:
\* once closed() returns true, it returns true after every later operation
\* or notification.
C28_ClosedStep ==
    (kind \in {"consumer", "data_producer"} /\ ent.closed) => ent'.closed

C28_ClosedIsTerminal == [][C28_ClosedStep]_vars

\* A closed Consumer, still referenced, after a further notification and a
\* further request method.
C28_Witness ==
    /\ kind = "consumer"
    /\ ent.closed
    /\ ent.refs > 0
    /\ ent.lateNotif
    /\ ent.reqsAfterClose = 1
    /\ ent.call = "none"

\* C29: a close request that fails is only logged.  In the step in which
\* the close task learns of the failure the entity stays closed, no handler
\* is invoked and none is put back, no request is made, a request method in
\* flight is not touched, and the task gives up its reference to the
\* transport; afterwards the task stays finished, so there is no retry.
C29_FailureStep ==
    (~ent.closeErr /\ ent'.closeErr) =>
        /\ ent'.closed
        /\ ent'.calls = ent.calls
        /\ ent'.reg = ent.reg
        /\ ent'.closeReqs = ent.closeReqs
        /\ ent'.call = ent.call
        /\ ent'.refs = ent.refs
        /\ ent'.task = "done"
        /\ kind # "data_consumer" =>
              ChildHolds(kind, ent') = ChildHolds(kind, ent) - 1

C29_AfterFailure ==
    /\ ent.closeErr => (ent.closed /\ ent.task = "done" /\ ent.closeReqs = 1)
    /\ tr.closeRes = "err" => (tr.closed /\ tr.closeReqs = 1)

C29_FailedCloseOnlyLogged ==
    [](C29_AfterFailure) /\ [][C29_FailureStep]_vars

\* A DataProducer closed by DataProducer::close whose close request failed
\* while the application still holds it, and whose close handler ran once.
C29_Witness ==
    /\ kind = "data_producer"
    /\ ent.closeErr
    /\ ent.refs > 0
    /\ ent.calls["close"][1] = 1
    /\ ent.tclosePc = "none"

\* C31: no lock is held by a thread that awaits the response of a request:
\* every request method takes its locks after the await has completed.
C31_NoLockAcrossAwait ==
    \A t \in Threads : th[t].pc = "await" => Held(t) = {}

C31_Witness ==
    /\ th["app"].pc = "await" /\ th["app"].op = "resume"
    /\ cached.paused
    /\ owner["producer_paused"] = "reader"

\* The application thread in pause or resume and the link-reading thread in
\* a producerpause or producerresume arm each hold their own flag's lock and
\* wait for the other's.
MutualWait ==
    /\ th["app"].pc = "read" /\ th["reader"].pc = "read"
    /\ Blocked("app") /\ owner[WantLock("app")] = "reader"
    /\ Blocked("reader") /\ owner[WantLock("reader")] = "app"

\* C32: producer_paused() is true after a producerpause and false after a
\* producerresume (the constructor value before any), and the dispatch of
\* every such notification calls every producer_pause / producer_resume
\* handler: it never comes to a halt before it has.
C32_ProducerPausedFollows ==
    /\ th["reader"].pc = "idle" =>
          cached.producer_paused =
              (IF ppDone.n = "none" THEN ppInit ELSE ppDone.n = "producerpause")
    /\ ppDone.n # "none" => ppDone.calls = ppDone.handlers
    /\ th["reader"].op \in {"producerpause", "producerresume"} =>
          ~(SelfBlocked("reader") \/ MutualWait)

\* C33: pause or resume on one thread and a producerpause or producerresume
\* arm on the link-reading thread never wait for each other's lock.
C33_NoDeadlock == ~MutualWait

\* C34: a handler runs with none of the consumer's cached-state locks held
\* by its thread, so a getter it calls never waits for its own thread.
C34_HandlersRunUnlocked ==
    \A t \in Threads :
        th[t].pc = "in_handler" =>
            /\ Held(t) \cap CachedLocks = {}
            /\ ~SelfBlocked(t)

\* C35: the pause event and the resume event alternate: the one that is
\* fired is never the one that was fired last.
C35_Step ==
    \A t \in Threads : \A e \in {"pause", "resume"} :
        (th'[t].ev = e /\ th[t].ev # e) => lastEv # e

C35_PauseResumeAlternate == [][C35_Step]_vars

\* C36: once a Consumer is closed, its transport_close and producer_close
\* handlers are not invoked any more: a producerclose notification or a
\* close of the transport that reaches a closed consumer invokes none, so a
\* consumer reports at most one cause of closing.
C36_Step ==
    (kind = "consumer" /\ ent.closed) =>
        /\ ent'.calls["transport_close"] = ent.calls["transport_close"]
        /\ ent'.calls["producer_close"] = ent.calls["producer_close"]

C36_NoCauseAfterClosed == [][C36_Step]_vars

C38_AllocationIsExclusive ==
    /\ \A i \in StreamIds : holds[i] <= 1
    /\ \A i \in StreamIds : holds[i] > 0 => i \in TableIds(sctp_mis)
    /\ idOut.op = "allocate" =>
          /\ (idOut.res = None) <=> idOut.full
          /\ idOut.res # None => idOut.res \in TableIds(sctp_mis)
          /\ sctp_mis = None => idOut.res = None

C38_Witness ==
    /\ sctp_mis = MaxMis
    /\ idOut.op = "allocate" /\ idOut.res = None
    /\ \A i \in TableIds(sctp_mis) : holds[i] = 1

\* C39: the values next_mid_for_consumers returns are pairwise distinct,
\* and the k-th value handed out is k - 1.
C39_MidsCountUp ==
    /\ \A k \in 1..Len(mids) : mids[k] = k - 1
    /\ \A j, k \in 1..Len(mids) : j # k => mids[j] # mids[k]

C39_Witness == Len(mids) = MaxMids /\ idOut.op = "next_mid"

\* C40: upgrading the weak handle of a live DataProducer yields a
\* DataProducer of the variant of the original.
C40_UpgradeKeepsVariant ==
    dprod.got \in {"Regular", "Direct"} => dprod.got = dprod.variant

Called(o, ev) == \E i \in DOMAIN o.fired : o.fired[i].ev = ev

\* The consumer is paused in effect: by itself or through its producer.
Effective(c) == c.paused \/ c.producer_paused

\* The name of the notification that carries event ev.
NotificationOf(ev) == IF ev = "layers_change" THEN "layerschange" ELSE ev

\* C22: for a state-carrying notification (score, layerschange of a
\* Consumer; icestatechange, iceselectedtuplechange, dtlsstatechange,
\* sctpstatechange of a WebRtcTransport) the handlers are called with the
\* notified value and find it in the cached field already; every handler
\* in the list is called once for the notification, also when the dispatch
\* cannot go on; and the cached field changes only in the step that handles
\* such a notification, so the getter returns the value until the next one.
C22_CachedWhenCalled ==
    /\ \A i \in DOMAIN out.fired :
          LET f == out.fired[i]
          IN  f.ev \in StateEvents(skind) =>
                /\ f.seen = f.arg
                /\ Cached(con, wt, f.ev) = f.arg
                /\ skind = "consumer" => f.n = handlers[f.ev]
    /\ wt.disp.ev # "none" =>
          /\ Cached(con, wt, wt.disp.ev) = wt.disp.v
          /\ wt.disp.n = handlers[wt.disp.ev]
    /\ wt.stuck # "none" => wt.disp.i = wt.disp.n

C22_GetterStep ==
    \A ev \in StateEvents(skind) :
        Cached(con', wt', ev) # Cached(con, wt, ev) =>
            out'.op = NotificationOf(ev)

C22_StateNotifications ==
    [](C22_CachedWhenCalled) /\ [][C22_GetterStep]_vars

\* C23: a notification whose body cannot be parsed is discarded.  The step
\* that handles it leaves every cached field, the closed flag, the handler
\* lists, a dispatch and a request in flight as they were and calls no
\* handler; as nothing has changed, whatever follows is handled as it
\* would have been without it.
C23_BadStep ==
    out'.op = "bad" =>
        /\ con' = con
        /\ wt' = wt
        /\ handlers' = handlers
        /\ req' = req
        /\ out'.fired = <<>>
        /\ out'.ret = "none"

C23_UnparsableDiscarded == [][C23_BadStep]_vars

\* An unparsable notification reached an open Consumer whose producer is
\* paused, while a request method was awaiting its response.
C23_Witness ==
    /\ skind = "consumer"
    /\ out.op = "bad"
    /\ req # NoReq
    /\ con.producer_paused
    /\ ~con.closed

\* C24: the resume handlers of a Consumer are called when, and only when,
\* a step takes (paused OR producer_paused) from true to false, be it
\* Consumer::resume or a producerresume notification.
C24_Step ==
    skind = "consumer" =>
        (Called(out', "resume") <=> (Effective(con) /\ ~Effective(con')))

C24_ResumeOnTransition == [][C24_Step]_vars

\* C25: the pause handlers of a Consumer are called when, and only when, a
\* step takes (paused OR producer_paused) from false to true, be it
\* Consumer::pause or a producerpause notification.
C25_Step ==
    skind = "consumer" =>
        (Called(out', "pause") <=> (~Effective(con) /\ Effective(con')))

C25_PauseOnTransition == [][C25_Step]_vars

\* Consumer::pause succeeded on a consumer that was not paused and whose
\* producer was not paused: the pause handlers were called.
C25_Witness ==
    /\ skind = "consumer"
    /\ out.op = "pause"
    /\ out.ret = "ok"
    /\ Called(out, "pause")
    /\ con.paused
    /\ ~con.producer_paused

\* C26: a handler can be registered for an event while the callbacks of
\* that event are being dispatched, from inside one of them or from
\* another thread: the registration completes, no thread is left blocked
\* or unwound, and the dispatch in progress calls exactly the callbacks
\* that were in the list when it began.
C26_RegistrationDuringDispatch ==
    /\ wt.stuck = "none"
    /\ wt.disp.ev # "none" => wt.disp.n = handlers[wt.disp.ev]

\* C30: when the request of a state-changing method fails (pause, resume,
\* set_priority, unset_priority, set_preferred_layers of a Consumer,
\* connect of a WebRtcTransport), the method returns the error and the
\* step leaves paused, priority, preferred_layers, the DTLS role and every
\* other cached field as they were and calls no handler.
C30_ErrStep ==
    out'.ret = "err" =>
        /\ req # NoReq
        /\ req' = NoReq
        /\ con' = con
        /\ wt'.data = wt.data
        /\ out'.fired = <<>>

C30_FailedRequestChangesNothing == [][C30_ErrStep]_vars

\* Consumer::pause returned an error on a consumer that is not paused.
C30_Witness ==
    /\ skind = "consumer"
    /\ out.op = "pause"
    /\ out.ret = "err"
    /\ ~con.paused
    /\ ~con.producer_paused

====
